---- MODULE Spec2Model ----
(***************************************************************************)
(* The passport-photo wizard of App.tsx: the five-step workflow, the       *)
(* in-flight asynchronous work it starts (FileReader loads, handleApplyCrop *)
(* invocations, the PayPal SDK load, payment captures) and the services it  *)
(* calls (getCroppedImg, checkPassportCompliance, loadPayPalSDK,            *)
(* verifyPayment); and the serverless functions of api/, each with the     *)
(* requests it is handling, its rate limiter's Map and the blob store.      *)
(*                                                                         *)
(* React state is one variable per useState/useRef.  A handler, or the part *)
(* of an async handler between two awaits, is one action; the useEffect on  *)
(* [step] runs in the same action as the step change that triggers it.      *)
(***************************************************************************)
EXTENDS Integers, FiniteSets, Sequences, Bags, TLC

\* ------------------------------------------------------------------ bounds
MaxReaders == 1       \* FileReaders that can be loading at once
MaxCaptures == 2      \* payment captures in flight at once
MaxInflight == 1      \* handler invocations a function instance has suspended at once
MaxClock == 60000     \* how far Date.now() advances on the server, in ms
MaxOverLimit == 2     \* hits a client has on record beyond the rate limit

\* ------------------------------------------------------- program constants
TARGET_WIDTH == 1500
TARGET_HEIGHT == 2000
BytesPerKb == 1024
MinSizeKb == 250
MaxSizeKb == 5120
MinWidth == 900
MaxWidth == 4500
MinHeight == 1200
MaxHeight == 6000
InitialZoom == 1
InitialRotation == 0
FullQuality == 95     \* 0.95, in hundredths
PreviewQuality == 70  \* 0.7, in hundredths
MaxImageLength == 15000000

\* ------------------------------------------------------------ JS values
Null == [null |-> TRUE]
Undefined == [undefined |-> TRUE]
NaN == [nan |-> TRUE]

\* obj.name of a JS object: undefined when the property is absent
Prop(obj, name) == IF name \in DOMAIN obj THEN obj[name] ELSE Undefined

\* a ?? b
Coalesce(a, b) == IF a = Null \/ a = Undefined THEN b ELSE a

\* truthiness of an object-or-null value in a render guard
Truthy(v) == v # Null /\ v # Undefined

\* a JS string / number held where null or undefined may also be held
Str(s) == [str |-> s]
Num(n) == [num |-> n]

AppStep == {"UPLOAD", "CROP", "VALIDATE", "PAYMENT", "DOWNLOAD"}

Files == {"photo.jpg"}
\* the data URL FileReader.readAsDataURL yields for file f
FileUrl(f) == [file |-> f]

InitialCrop == [x |-> 0, y |-> 0]
CropValues == {InitialCrop, [x |-> 1, y |-> 0]}
ZoomValues == {InitialZoom, 2}
RotationValues == {InitialRotation, 90}
AreaValues == {[x |-> 0, y |-> 0, width |-> 3, height |-> 4]}

\* byte lengths the JPEG encoder may produce: both sides of both size limits
EncodedSizes ==
    {MinSizeKb * BytesPerKb - 1, MinSizeKb * BytesPerKb,
     MaxSizeKb * BytesPerKb, MaxSizeKb * BytesPerKb + 1}

\* ------------------------------------------------- utils/imageUtils
\* What createImage, getContext and toBlob can do in one getCroppedImg call.
RenderOutcomes ==
    {[kind |-> "decode_error"], [kind |-> "no_context"], [kind |-> "null_blob"]}
    \cup {[kind |-> "encoded", size |-> n] : n \in EncodedSizes}

\* the canvas after drawCroppedImage / the ctx.drawImage block
drawCroppedImage(imageSrc, pixelCrop, rot) ==
    [src |-> imageSrc, area |-> pixelCrop, rotation |-> rot, watermark |-> FALSE]

addWatermark(canvas) == [canvas EXCEPT !.watermark = TRUE]

\* canvas.toBlob(.., 'image/jpeg', quality) followed by readAsDataURL
blobToDataUrl(canvas, quality) == [pixels |-> canvas, quality |-> quality]

\* A settled or forever-pending promise.
Fulfilled(v) == [state |-> "fulfilled", value |-> v]
Rejected(e) == [state |-> "rejected", reason |-> e]
Pending == [state |-> "pending"]

\* getCroppedImgPlain with the watermark drawn before the one encoding
getCroppedImgPlainMarked(imageSrc, pixelCrop, rot, o) ==
    CASE o.kind = "decode_error" -> Rejected(Str("image error event"))
      [] o.kind = "no_context" -> Rejected(Str("Could not get canvas context"))
      [] o.kind = "null_blob" -> Pending
      [] o.kind = "encoded" ->
            Fulfilled([dataUrl |->
                         blobToDataUrl(addWatermark(drawCroppedImage(imageSrc, pixelCrop, rot)),
                                       FullQuality),
                       size |-> Num(o.size),
                       width |-> TARGET_WIDTH,
                       height |-> TARGET_HEIGHT])

\* getCroppedImg as first written: one encoding, {dataUrl, size, width, height}
getCroppedImgPlain(imageSrc, pixelCrop, rot, o) ==
    CASE o.kind = "decode_error" -> Rejected(Str("image error event"))
      [] o.kind = "no_context" -> Rejected(Str("Could not get canvas context"))
      [] o.kind = "null_blob" -> Pending  \* the throw is inside the toBlob callback
      [] o.kind = "encoded" ->
            Fulfilled([dataUrl |-> blobToDataUrl(drawCroppedImage(imageSrc, pixelCrop, rot),
                                                 FullQuality),
                       size |-> Num(o.size),
                       width |-> TARGET_WIDTH,
                       height |-> TARGET_HEIGHT])

\* getCroppedImg with the preview: the clean canvas is encoded first, then the
\* watermark is drawn on the same canvas and the preview is encoded.
getCroppedImgPreview(imageSrc, pixelCrop, rot, o) ==
    CASE o.kind = "decode_error" -> Rejected(Str("image error event"))
      [] o.kind = "no_context" -> Rejected(Str("Could not get canvas context"))
      [] o.kind = "null_blob" -> Pending  \* canvasToBlob never resolves
      [] o.kind = "encoded" ->
            LET clean == drawCroppedImage(imageSrc, pixelCrop, rot)
                full == blobToDataUrl(clean, FullQuality)
                preview == blobToDataUrl(addWatermark(clean), PreviewQuality)
            IN Fulfilled([previewUrl |-> preview,
                          fullDataUrl |-> full,
                          fullSizeBytes |-> Num(o.size),
                          width |-> TARGET_WIDTH,
                          height |-> TARGET_HEIGHT])

\* getCroppedImg sizing the canvas to the crop rectangle
getCroppedImgCropSized(utils, imageSrc, pixelCrop, rot, o) ==
    LET p == IF utils = "plain"
             THEN getCroppedImgPlain(imageSrc, pixelCrop, rot, o)
             ELSE getCroppedImgPreview(imageSrc, pixelCrop, rot, o)
    IN IF p.state = "fulfilled"
       THEN Fulfilled([p.value EXCEPT !.width = pixelCrop.width, !.height = pixelCrop.height])
       ELSE p

\* The module './utils/imageUtils' resolves to one of the two.
ImageUtils == {"plain", "preview"}

\* getCroppedImg with a createImage that resolves on the error event too
getCroppedImgDecodeResolves(utils, imageSrc, pixelCrop, rot, o) ==
    IF o.kind = "decode_error"
    THEN Fulfilled([dataUrl |-> blobToDataUrl(drawCroppedImage(imageSrc, pixelCrop, rot),
                                              FullQuality),
                    size |-> Num(0),
                    width |-> TARGET_WIDTH,
                    height |-> TARGET_HEIGHT])
    ELSE IF utils = "plain"
    THEN getCroppedImgPlain(imageSrc, pixelCrop, rot, o)
    ELSE getCroppedImgPreview(imageSrc, pixelCrop, rot, o)

getCroppedImg(utils, imageSrc, pixelCrop, rot, o) ==
    IF utils = "plain"
    THEN getCroppedImgPlain(imageSrc, pixelCrop, rot, o)
    ELSE getCroppedImgPreview(imageSrc, pixelCrop, rot, o)

\* --------------------------------------------- handleApplyCrop's verdict
\* size / 1024 as an exact fraction; undefined / 1024 is NaN
DivKb(size) == IF size = Undefined THEN NaN ELSE [num |-> size.num, den |-> BytesPerKb]

\* q > k instead of q >= k
GtKb(q, k) == q # NaN /\ q.num > k * q.den

\* q >= k and q <= k on such a fraction; every comparison with NaN is false
GeqKb(q, k) == q # NaN /\ q.num >= k * q.den
LeqKb(q, k) == q # NaN /\ q.num <= k * q.den

\* TechnicalResult with the dimension verdict granted only to a valid size
TechnicalResultCoupled(size, width, height) ==
    LET fileSizeKb == DivKb(size)
        sizeValid == GeqKb(fileSizeKb, MinSizeKb) /\ LeqKb(fileSizeKb, MaxSizeKb)
    IN [fileSizeKb |-> fileSizeKb,
        width |-> width,
        height |-> height,
        format |-> "image/jpeg",
        sizeValid |-> sizeValid,
        dimensionsValid |-> sizeValid /\ width >= MinWidth /\ width <= MaxWidth
                            /\ height >= MinHeight /\ height <= MaxHeight,
        formatValid |-> TRUE]

TechnicalResult(size, width, height) ==
    LET fileSizeKb == DivKb(size)
    IN [fileSizeKb |-> fileSizeKb,
        width |-> width,
        height |-> height,
        format |-> "image/jpeg",
        sizeValid |-> GeqKb(fileSizeKb, MinSizeKb) /\ LeqKb(fileSizeKb, MaxSizeKb),
        dimensionsValid |-> width >= MinWidth /\ width <= MaxWidth
                            /\ height >= MinHeight /\ height <= MaxHeight,
        formatValid |-> TRUE]

\* ------------------------------------------------ services (fetch calls)
\* What one fetch of a JSON endpoint can do.  ok_body and http_error_body
\* carry the parsed JSON body.
FetchOutcomes(okBodies, errorBodies) ==
    {[kind |-> "network_error"], [kind |-> "http_error_unparsable"],
     [kind |-> "ok_unparsable"]}
    \cup {[kind |-> "ok_body", body |-> b] : b \in okBodies}
    \cup {[kind |-> "http_error_body", body |-> b] : b \in errorBodies}

\* The value the try block throws, or Null when it returns: the message of
\* the Error for a failed fetch, a failed response.json() or a non-2xx reply.
FetchThrows(o) ==
    CASE o.kind = "network_error" -> Str("Failed to fetch")
      [] o.kind = "ok_unparsable" -> Str("Unexpected token in JSON")
      [] o.kind = "http_error_unparsable" -> Coalesce(Undefined, Str("Server error"))
      [] o.kind = "http_error_body" -> Coalesce(Prop(o.body, "error"), Str("Server error"))
      [] o.kind = "ok_body" -> Null

ErrorChecks ==
    [background |-> "Error", headSize |-> "Error", expression |-> "Error",
     lighting |-> "Error", sharpness |-> "Error"]

ComplianceError ==
    [passed |-> FALSE, score |-> 0, checks |-> ErrorChecks,
     feedback |-> "Failed to connect to AI service for validation. Please try again."]

PassChecks ==
    [background |-> "Pass", headSize |-> "Pass", expression |-> "Pass",
     lighting |-> "Pass", sharpness |-> "Pass"]

\* bodies /api/check-compliance answers: 200 with the evaluator's verdict,
\* 4xx/5xx with {error} or with an error-shaped ComplianceResult
ComplianceOkBodies ==
    {[passed |-> TRUE, score |-> 90, checks |-> PassChecks, feedback |-> "Compliant"],
     [passed |-> FALSE, score |-> 40,
      checks |-> [PassChecks EXCEPT !.background = "Fail"], feedback |-> "Background"]}

ComplianceErrorBodies ==
    {[error |-> Str("Too many requests. Please wait a moment.")],
     [passed |-> FALSE, score |-> 0, checks |-> ErrorChecks, feedback |-> "AI service error"]}

ComplianceOutcomes == FetchOutcomes(ComplianceOkBodies, ComplianceErrorBodies)

\* checkPassportCompliance with the non-2xx throw outside the try block
checkPassportComplianceUncaught(o) ==
    IF FetchThrows(o) = Null THEN Fulfilled(o.body)
    ELSE IF o.kind \in {"http_error_body", "http_error_unparsable"}
    THEN Rejected(FetchThrows(o))
    ELSE Fulfilled(ComplianceError)

checkPassportCompliance(o) ==
    IF FetchThrows(o) = Null THEN Fulfilled(o.body) ELSE Fulfilled(ComplianceError)

\* bodies /api/verify-payment answers
VerifyOkBodies ==
    {[verified |-> TRUE, orderID |-> "ORDER"],
     [verified |-> FALSE, orderID |-> "ORDER",
      error |-> Str("Payment not completed. Status: DECLINED")],
     [verified |-> FALSE]}

VerifyErrorBodies ==
    {[verified |-> FALSE, error |-> Str("Invalid orderID format")],
     [verified |-> FALSE]}

VerifyOutcomes == FetchOutcomes(VerifyOkBodies, VerifyErrorBodies)

verifyPayment(o) ==
    IF FetchThrows(o) = Null
    THEN Fulfilled(o.body)
    ELSE Fulfilled([verified |-> FALSE,
                    error |-> Coalesce(FetchThrows(o),
                                       Str("Failed to verify payment. Please contact support."))])

\* loadPayPalSDK without the test of loadPromise
loadPayPalSDKUnshared(paypalDefined, promise) ==
    IF paypalDefined
    THEN [returns |-> "resolved", loadPromise |-> promise, appended |-> FALSE]
    ELSE [returns |-> "pending", loadPromise |-> "pending", appended |-> TRUE]

\* loadPayPalSDK(): the promise it returns, the loadPromise it leaves and
\* whether it appended a script element.
loadPayPalSDK(paypalDefined, promise) ==
    CASE paypalDefined ->
            [returns |-> "resolved", loadPromise |-> promise, appended |-> FALSE]
      [] ~paypalDefined /\ promise # "null" ->
            [returns |-> promise, loadPromise |-> promise, appended |-> FALSE]
      [] OTHER ->
            [returns |-> "pending", loadPromise |-> "pending", appended |-> TRUE]

\* ------------------------------------------------------------------ state
VARIABLES
    utils,              \* which getCroppedImg './utils/imageUtils' resolves to
    step, image, croppedImage, crop, zoom, rotation, croppedAreaPixels,
    loading, compliance, techResult,
    paymentVerified, paypalReady, paymentError, paymentLoading,
    paypalRendered,     \* the useRef
    loadPromise,        \* paypalService's module variable: "null", "pending", "resolved"
    windowPaypal,       \* window.paypal is defined
    scripts,            \* SDK script elements in document.head: how many are
                        \* loading and how many have loaded
    button,             \* PayPal's button nodes are in the payment panel's div
    readers,            \* bag of the files whose FileReader has not fired load yet
    applies,            \* handleApplyCrop invocations suspended at an await
    sdkWaiters,         \* .then/.catch of effect runs waiting for the SDK script
    renders,            \* calls of paypal.Buttons(...).render since the step changed
    captures,           \* onApprove invocations suspended at an await: how many
                        \* there are of each kind [phase, cancelled]
    env,                \* process.env of the deployment
    now,                \* Date.now() on the server, in ms since the instances started
    ipHits,             \* the ipHits Map of each function instance that is up
    store,              \* the blobs of the Vercel Blob store
    inflight,           \* handler invocations suspended at an await
    answered            \* the response sent last, with its request

\* a suspended onApprove: the await it is at and its closure's cancelled flag
CaptureKinds == [phase : {"capture", "verify"}, cancelled : BOOLEAN]
InFlight(c) == c \in CaptureKinds /\ captures[c] > 0
Started(caps, c) == [caps EXCEPT ![c] = @ + 1]
Ended(caps, c) == [caps EXCEPT ![c] = @ - 1]
CapturesInFlight ==
    captures[[phase |-> "capture", cancelled |-> FALSE]]
    + captures[[phase |-> "capture", cancelled |-> TRUE]]
    + captures[[phase |-> "verify", cancelled |-> FALSE]]
    + captures[[phase |-> "verify", cancelled |-> TRUE]]

cropVars == <<crop, zoom, rotation, croppedAreaPixels>>
photoVars == <<image, croppedImage, compliance, techResult>>
payVars == <<paymentVerified, paypalReady, paymentError, paymentLoading>>
sdkVars == <<loadPromise, windowPaypal, scripts>>
effectVars == <<paypalRendered, button, sdkWaiters, captures, renders>>
clientVars == <<utils, step, loading, cropVars, photoVars, payVars, sdkVars, effectVars,
                readers, applies>>
serverVars == <<env, now, ipHits, store, inflight, answered>>
vars == <<clientVars, serverVars>>

\* the functions of api/ that consult a rate limiter
Endpoints ==
    {"verify-payment", "store-photo", "check-compliance", "download-photo",
     "send-download-email"}

\* no response sent yet
NoAnswer == [none |-> TRUE]

\* {} of JS, and an empty Map
EmptyObject == [k \in {} |-> k]

\* process.env with every variable the functions read set, or none of them
EnvSet(production) ==
    [production |-> production, paypal |-> TRUE, resendKey |-> TRUE, geminiKey |-> TRUE,
     cronSecret |-> Str("s3cret")]
EnvUnset(production) ==
    [production |-> production, paypal |-> FALSE, resendKey |-> FALSE, geminiKey |-> FALSE,
     cronSecret |-> Undefined]
EnvSamples == {EnvSet(TRUE), EnvSet(FALSE), EnvUnset(TRUE), EnvUnset(FALSE)}

\* the instances of the functions in up have just started, nothing is stored
ColdStart(e, up, blobs) ==
    /\ env = e
    /\ now = 0
    /\ ipHits = [f \in up |-> EmptyObject]
    /\ store = blobs
    /\ inflight = {}
    /\ answered = NoAnswer

\* the wizard as App mounts it
InitClient ==
    /\ utils \in ImageUtils
    /\ step = "UPLOAD"
    /\ image = Null
    /\ croppedImage = Null
    /\ crop = InitialCrop
    /\ zoom = InitialZoom
    /\ rotation = InitialRotation
    /\ croppedAreaPixels = Null
    /\ loading = FALSE
    /\ compliance = Null
    /\ techResult = Null
    /\ paymentVerified = FALSE
    /\ paypalReady = FALSE
    /\ paymentError = Null
    /\ paymentLoading = FALSE
    /\ paypalRendered = FALSE
    /\ loadPromise = "null"
    /\ windowPaypal = FALSE
    /\ scripts = [loading |-> 0, loaded |-> 0]
    /\ button = FALSE
    /\ readers = EmptyBag
    /\ applies = {}
    /\ sdkWaiters = {}
    /\ renders = 0
    /\ captures = [k \in CaptureKinds |-> 0]

Init == InitClient /\ ColdStart(EnvSet(TRUE), Endpoints, {})

\* ------------------------------------------------- the useEffect on [step]
\* an effect without the cleanup function
NoCleanup(S) == S

\* the cleanup of an effect run: cancelled = true in every closure of it
Cancel(S) == {[x EXCEPT !.cancelled = TRUE] : x \in S}

CancelCaptures(caps) ==
    [k \in CaptureKinds |->
        IF k.cancelled
        THEN caps[k] + caps[[k EXCEPT !.cancelled = FALSE]]
        ELSE 0]

\* setStep(newStep) for a step other than PAYMENT, with the effect it triggers:
\* the cleanup of the previous run, then paypalRendered.current = false.  The
\* payment panel, and PayPal's button in it, is unmounted.  caps is the set
\* of captures the calling handler leaves in flight.
SetStep(newStep, caps) ==
    /\ step' = newStep
    /\ IF newStep # step
       THEN /\ sdkWaiters' = Cancel(sdkWaiters)
            /\ captures' = CancelCaptures(caps)
            /\ paypalRendered' = FALSE
            /\ button' = FALSE
            /\ renders' = 0
       ELSE /\ captures' = caps
            /\ UNCHANGED <<sdkWaiters, paypalRendered, button, renders>>

LoadFailedMessage == Str("Failed to load payment system. Please refresh.")

\* The .then callback of an effect run that is not cancelled.  render() puts
\* the button into #paypal-button-container; the div carries that id only
\* while paymentLoading is false, and without it render() fails, either by
\* throwing into the .catch (renderThrows) or by a rejection nobody handles.
ThenCallback(paypalDefined, renderThrows) ==
    /\ paypalReady' = TRUE
    /\ IF paypalRendered
       THEN UNCHANGED <<paypalRendered, button, paymentError, renders>>
       ELSE /\ paypalRendered' = TRUE
            /\ IF ~paypalDefined
               THEN UNCHANGED <<button, paymentError, renders>>
               ELSE /\ renders' = renders + 1
                    /\ IF ~paymentLoading
                       THEN button' = TRUE /\ UNCHANGED paymentError
                       ELSE /\ UNCHANGED button
                            /\ paymentError' =
                                  IF renderThrows THEN LoadFailedMessage ELSE paymentError

\* The effect body for step = PAYMENT: loadPayPalSDK().then(...).catch(...)
PaymentEffect ==
    LET r == loadPayPalSDK(windowPaypal, loadPromise)
    IN /\ loadPromise' = r.loadPromise
       /\ scripts' = IF r.appended THEN [scripts EXCEPT !.loading = @ + 1] ELSE scripts
       /\ IF r.returns = "resolved"
          THEN /\ \E renderThrows \in BOOLEAN : ThenCallback(windowPaypal, renderThrows)
               /\ UNCHANGED sdkWaiters
          ELSE /\ sdkWaiters' = sdkWaiters \cup {[cancelled |-> FALSE]}
               /\ UNCHANGED <<paypalReady, paypalRendered, button, paymentError, renders>>

\* ------------------------------------------------------ upload and crop
\* The file input exists in step UPLOAD only.  readAsDataURL is started and
\* its load listener runs later, whatever the step is by then.
handleFileUpload(f) ==
    /\ step = "UPLOAD"
    /\ BagCardinality(readers) < MaxReaders
    /\ readers' = readers (+) SetToBag({f})
    /\ UNCHANGED <<serverVars, utils, step, loading, cropVars, photoVars, payVars, sdkVars,
                   effectVars, applies>>

readerLoad(f) ==
    /\ BagIn(f, readers)
    /\ readers' = readers (-) SetToBag({f})
    /\ image' = FileUrl(f)
    /\ SetStep("CROP", captures)
    /\ UNCHANGED <<serverVars, utils, loading, cropVars, croppedImage, compliance, techResult,
                   payVars, sdkVars, applies>>

\* the reader fires error instead of load: nothing listens
readerError(f) ==
    /\ BagIn(f, readers)
    /\ readers' = readers (-) SetToBag({f})
    /\ UNCHANGED <<serverVars, utils, step, loading, cropVars, photoVars, payVars, sdkVars,
                   effectVars, applies>>

\* The Cropper and the two range inputs exist while step = CROP && image.
CropperMounted == step = "CROP" /\ Truthy(image)

onCropChange(c) ==
    /\ CropperMounted
    /\ crop' = c
    /\ UNCHANGED <<serverVars, utils, step, loading, zoom, rotation, croppedAreaPixels, photoVars,
                   payVars, sdkVars, effectVars, readers, applies>>

onZoomChange(z) ==
    /\ CropperMounted
    /\ zoom' = z
    /\ UNCHANGED <<serverVars, utils, step, loading, crop, rotation, croppedAreaPixels, photoVars,
                   payVars, sdkVars, effectVars, readers, applies>>

onRotationChange(r) ==
    /\ CropperMounted
    /\ rotation' = r
    /\ UNCHANGED <<serverVars, utils, step, loading, crop, zoom, croppedAreaPixels, photoVars,
                   payVars, sdkVars, effectVars, readers, applies>>

onCropComplete(a) ==
    /\ CropperMounted
    /\ croppedAreaPixels' = a
    /\ UNCHANGED <<serverVars, utils, step, loading, crop, zoom, rotation, photoVars,
                   payVars, sdkVars, effectVars, readers, applies>>

\* ------------------------------------------------------- handleApplyCrop
\* The Verify Photo button: rendered with the Cropper, disabled while loading.
\* The handler returns at once without a croppedAreaPixels.
handleApplyCrop ==
    /\ CropperMounted
    /\ ~loading
    /\ croppedAreaPixels # Null
    /\ loading' = TRUE
    /\ applies' = applies \cup
          {[phase |-> "render", image |-> image, area |-> croppedAreaPixels,
            rotation |-> rotation, sessionReset |-> FALSE]}
    /\ UNCHANGED <<serverVars, utils, step, cropVars, photoVars, payVars, sdkVars, effectVars, readers>>

\* The call awaiting checkPassportCompliance(dataUrl).  An undefined dataUrl
\* is dropped by JSON.stringify and the endpoint answers 400 to a body
\* without an image.
AwaitCompliance(a, dataUrl) ==
    [phase |-> "compliance", sent |-> dataUrl # Undefined, sessionReset |-> a.sessionReset]

\* await getCroppedImg(...) is over: resumed with the result, thrown into
\* the catch, or never resumed.
croppedImgSettled(a, o) ==
    /\ a \in applies
    /\ a.phase = "render"
    /\ LET p == getCroppedImg(utils, a.image, a.area, a.rotation, o)
       IN CASE p.state = "pending" ->
                 /\ applies' = (applies \ {a}) \cup
                       {[phase |-> "hung", sessionReset |-> a.sessionReset]}
                 /\ UNCHANGED <<loading, croppedImage, techResult>>
            [] p.state = "rejected" ->
                 /\ applies' = applies \ {a}
                 /\ loading' = FALSE
                 /\ UNCHANGED <<croppedImage, techResult>>
            [] p.state = "fulfilled" ->
                 LET dataUrl == Prop(p.value, "dataUrl")
                     size == Prop(p.value, "size")
                 IN /\ croppedImage' = dataUrl
                    /\ techResult' = TechnicalResult(size, p.value.width, p.value.height)
                    /\ applies' = (applies \ {a}) \cup {AwaitCompliance(a, dataUrl)}
                    /\ UNCHANGED loading
    /\ UNCHANGED <<serverVars, utils, step, cropVars, image, compliance, payVars, sdkVars,
                   effectVars, readers>>

\* the outcomes the compliance request of call a can have
ComplianceOutcomesOf(a) ==
    IF a.sent THEN ComplianceOutcomes
    ELSE {o \in ComplianceOutcomes : o.kind # "ok_body"}

\* complianceSettled with setStep(VALIDATE) but without setCompliance(result)
complianceSettledUnstored(a, o) ==
    /\ a \in applies
    /\ a.phase = "compliance"
    /\ o \in ComplianceOutcomesOf(a)
    /\ applies' = applies \ {a}
    /\ SetStep("VALIDATE", captures)
    /\ loading' = FALSE
    /\ UNCHANGED <<serverVars, utils, cropVars, image, croppedImage, techResult, compliance, payVars,
                   sdkVars, readers>>

\* await checkPassportCompliance(dataUrl) is over
complianceSettled(a, o) ==
    /\ a \in applies
    /\ a.phase = "compliance"
    /\ o \in ComplianceOutcomesOf(a)
    /\ applies' = applies \ {a}
    /\ LET p == checkPassportCompliance(o)
       IN IF p.state = "fulfilled"
          THEN /\ compliance' = p.value
               /\ SetStep("VALIDATE", captures)
          ELSE UNCHANGED <<compliance, step, effectVars>>
    /\ loading' = FALSE
    /\ UNCHANGED <<serverVars, utils, cropVars, image, croppedImage, techResult, payVars, sdkVars,
                   readers>>

\* ------------------------------------------------------------- Start Over
reset ==
    /\ image' = Null
    /\ croppedImage' = Null
    /\ rotation' = InitialRotation
    /\ zoom' = InitialZoom
    /\ step' = "UPLOAD"
    /\ compliance' = Null
    /\ techResult' = Null
    /\ paymentVerified' = FALSE
    /\ paypalReady' = FALSE
    /\ paymentError' = Null
    /\ paymentLoading' = FALSE
    /\ paypalRendered' = FALSE
    /\ button' = FALSE
    /\ renders' = 0
    /\ IF step # "UPLOAD"
       THEN sdkWaiters' = Cancel(sdkWaiters) /\ captures' = CancelCaptures(captures)
       ELSE UNCHANGED <<sdkWaiters, captures>>
    /\ applies' = {[a EXCEPT !.sessionReset = TRUE] : a \in applies}
    /\ UNCHANGED <<serverVars, utils, loading, crop, croppedAreaPixels, sdkVars, readers>>

\* ------------------------------------------------------ the Validate screen
ValidateRendered ==
    step = "VALIDATE" /\ Truthy(croppedImage) /\ Truthy(techResult) /\ Truthy(compliance)

reCrop ==
    /\ ValidateRendered
    /\ SetStep("CROP", captures)
    /\ UNCHANGED <<serverVars, utils, loading, cropVars, photoVars, payVars, sdkVars, readers, applies>>

\* the Accept Photo button rendered on the AI verdict alone
AcceptRenderedNoSize == ValidateRendered /\ compliance.passed

\* the Accept Photo button is rendered under this condition
AcceptRendered == ValidateRendered /\ compliance.passed /\ techResult.sizeValid

accept ==
    /\ AcceptRendered
    /\ step' = "PAYMENT"
    /\ PaymentEffect
    /\ UNCHANGED <<serverVars, utils, loading, cropVars, photoVars, paymentVerified, paymentLoading,
                   windowPaypal, captures, readers, applies>>

\* ------------------------------------------------------- PayPal SDK script
\* script.onload: the promise resolves and every waiting .then runs; only the
\* run that is not cancelled goes past its first line.  The script normally
\* defines window.paypal; the callback also handles that it did not.
scriptOnload(defines) ==
    /\ loadPromise = "pending"
    /\ loadPromise' = "resolved"
    /\ windowPaypal' = defines
    /\ scripts' = [loading |-> scripts.loading - 1, loaded |-> scripts.loaded + 1]
    /\ sdkWaiters' = {}
    /\ IF \E w \in sdkWaiters : ~w.cancelled
       THEN \E renderThrows \in BOOLEAN : ThenCallback(defines, renderThrows)
       ELSE UNCHANGED <<paypalReady, paypalRendered, button, paymentError, renders>>
    /\ UNCHANGED <<serverVars, utils, step, loading, cropVars, photoVars, paymentVerified,
                   paymentLoading, captures, readers, applies>>

\* scriptOnerror with a .catch that calls loadPayPalSDK again
scriptOnerrorRetry ==
    /\ loadPromise = "pending"
    /\ paymentError' =
          IF \E w \in sdkWaiters : ~w.cancelled THEN LoadFailedMessage ELSE paymentError
    /\ UNCHANGED <<serverVars, utils, step, loading, cropVars, photoVars, paymentVerified, paypalReady,
                   paymentLoading, sdkVars, effectVars, readers, applies>>

\* script.onerror: loadPromise = null, the promise rejects, every .catch runs
scriptOnerror ==
    /\ loadPromise = "pending"
    /\ loadPromise' = "null"
    /\ scripts' = [scripts EXCEPT !.loading = @ - 1]
    /\ sdkWaiters' = {}
    /\ paymentError' =
          IF \E w \in sdkWaiters : ~w.cancelled THEN LoadFailedMessage ELSE paymentError
    /\ UNCHANGED <<serverVars, utils, step, loading, cropVars, photoVars, paymentVerified, paypalReady,
                   paymentLoading, windowPaypal, paypalRendered, button, captures,
                   renders, readers, applies>>

\* ------------------------------------------------------- payment capture
\* onApprove where the spinner replaces the container element, so that the
\* button rendered into it is removed with it
onApproveUnmounts ==
    /\ step = "PAYMENT"
    /\ button
    /\ CapturesInFlight < MaxCaptures
    /\ captures' = Started(captures, [phase |-> "capture", cancelled |-> FALSE])
    /\ paymentLoading' = TRUE
    /\ paymentError' = Null
    /\ button' = FALSE
    /\ UNCHANGED <<serverVars, utils, step, loading, cropVars, photoVars, paymentVerified, paypalReady,
                   sdkVars, paypalRendered, sdkWaiters, renders, readers, applies>>

\* The buyer approves in PayPal's window and the SDK calls onApprove of the
\* rendered button.  The button belongs to the current effect run, so its
\* cancelled flag is false here.  The panel swaps two <div> elements in one
\* slot on paymentLoading, which React reconciles in place: the button's
\* nodes stay in that div while the spinner shows.
onApprove ==
    /\ step = "PAYMENT"
    /\ button
    /\ CapturesInFlight < MaxCaptures
    /\ captures' = Started(captures, [phase |-> "capture", cancelled |-> FALSE])
    /\ paymentLoading' = TRUE
    /\ paymentError' = Null
    /\ UNCHANGED <<serverVars, utils, step, loading, cropVars, photoVars, paymentVerified, paypalReady,
                   sdkVars, paypalRendered, button, sdkWaiters, renders, readers, applies>>

\* What actions.order.capture() can do: resolve with the order details or
\* reject with an error that has a message or has none.
CaptureOutcomes ==
    {Fulfilled([id |-> "ORDER"]), Rejected([message |-> Str("Capture declined")]),
     Rejected([other |-> TRUE])}

VerificationFailedMessage == Str("Payment verification failed.")
PaymentFailedMessage == Str("Payment failed. Please try again.")

\* onApproveSets without the test of result.verified
onApproveSetsUnchecked(cancelled, settled) ==
    IF cancelled
    THEN [paymentVerified |-> paymentVerified, download |-> FALSE,
          paymentError |-> paymentError, paymentLoading |-> paymentLoading]
    ELSE IF settled.state = "rejected"
    THEN [paymentVerified |-> paymentVerified, download |-> FALSE,
          paymentError |-> Coalesce(Prop(settled.reason, "message"),
                                    Str("Payment failed. Please try again.")),
          paymentLoading |-> FALSE]
    ELSE [paymentVerified |-> TRUE, download |-> TRUE,
          paymentError |-> paymentError, paymentLoading |-> FALSE]

\* onApproveSets with setPaymentVerified(true) moved in front of the try block
onApproveSetsEager(cancelled, settled) ==
    IF cancelled
    THEN [paymentVerified |-> paymentVerified, download |-> FALSE,
          paymentError |-> paymentError, paymentLoading |-> paymentLoading]
    ELSE IF settled.state = "rejected"
    THEN [paymentVerified |-> TRUE, download |-> FALSE,
          paymentError |-> Coalesce(Prop(settled.reason, "message"),
                                    Str("Payment failed. Please try again.")),
          paymentLoading |-> FALSE]
    ELSE IF settled.value.verified
    THEN [paymentVerified |-> TRUE, download |-> TRUE,
          paymentError |-> paymentError, paymentLoading |-> FALSE]
    ELSE [paymentVerified |-> TRUE, download |-> FALSE,
          paymentError |-> Coalesce(Prop(settled.value, "error"),
                                    Str("Payment verification failed.")),
          paymentLoading |-> FALSE]

\* onApproveSets with a finally block that does not test cancelled
onApproveSetsFinally(cancelled, settled) ==
    IF cancelled
    THEN [paymentVerified |-> paymentVerified, download |-> FALSE,
          paymentError |-> paymentError, paymentLoading |-> FALSE]
    ELSE IF settled.state = "rejected"
    THEN [paymentVerified |-> paymentVerified, download |-> FALSE,
          paymentError |-> Coalesce(Prop(settled.reason, "message"),
                                    Str("Payment failed. Please try again.")),
          paymentLoading |-> FALSE]
    ELSE IF settled.value.verified
    THEN [paymentVerified |-> TRUE, download |-> TRUE,
          paymentError |-> paymentError, paymentLoading |-> FALSE]
    ELSE [paymentVerified |-> paymentVerified, download |-> FALSE,
          paymentError |-> Coalesce(Prop(settled.value, "error"),
                                    Str("Payment verification failed.")),
          paymentLoading |-> FALSE]

\* onApprove from the first await on: what the try / catch / finally blocks
\* set, given the closure's cancelled flag and how the awaited chain
\* capture() -> verifyPayment() settled.
onApproveSets(cancelled, settled) ==
    IF cancelled
    THEN [paymentVerified |-> paymentVerified, download |-> FALSE,
          paymentError |-> paymentError, paymentLoading |-> paymentLoading]
    ELSE IF settled.state = "rejected"
    THEN [paymentVerified |-> paymentVerified, download |-> FALSE,
          paymentError |-> Coalesce(Prop(settled.reason, "message"), PaymentFailedMessage),
          paymentLoading |-> FALSE]
    ELSE IF settled.value.verified
    THEN [paymentVerified |-> TRUE, download |-> TRUE,
          paymentError |-> paymentError, paymentLoading |-> FALSE]
    ELSE [paymentVerified |-> paymentVerified, download |-> FALSE,
          paymentError |-> Coalesce(Prop(settled.value, "error"), VerificationFailedMessage),
          paymentLoading |-> FALSE]

\* the rest of onApprove runs for capture c
onApproveResume(c, settled) ==
    LET sets == onApproveSets(c.cancelled, settled)
    IN /\ paymentVerified' = sets.paymentVerified
       /\ paymentError' = sets.paymentError
       /\ paymentLoading' = sets.paymentLoading
       /\ IF sets.download
          THEN SetStep("DOWNLOAD", Ended(captures, c))
          ELSE /\ captures' = Ended(captures, c)
               /\ UNCHANGED <<step, paypalRendered, button, sdkWaiters, renders>>
       /\ UNCHANGED <<serverVars, utils, loading, cropVars, photoVars, paypalReady, sdkVars,
                      readers, applies>>

\* await actions.order.capture() is over
captureSettled(c, o) ==
    /\ InFlight(c)
    /\ c.phase = "capture"
    /\ IF o.state = "fulfilled"
       THEN /\ captures' = Started(Ended(captures, c), [c EXCEPT !.phase = "verify"])
            /\ UNCHANGED <<serverVars, utils, step, loading, cropVars, photoVars, payVars, sdkVars,
                           paypalRendered, button, sdkWaiters, renders, readers, applies>>
       ELSE onApproveResume(c, o)

\* await verifyPayment(details.id) is over
verifySettled(c, o) ==
    /\ InFlight(c)
    /\ c.phase = "verify"
    /\ onApproveResume(c, verifyPayment(o))

PayPalErrorMessage == Str("Payment error. Please try again.")

\* the SDK reports an error of the rendered button
onError ==
    /\ step = "PAYMENT"
    /\ button
    /\ paymentError' = PayPalErrorMessage
    /\ UNCHANGED <<serverVars, utils, step, loading, cropVars, photoVars, paymentVerified, paypalReady,
                   paymentLoading, sdkVars, effectVars, readers, applies>>

\* ---------------------------------------------------------- specification
Next ==
    \/ \E f \in Files : handleFileUpload(f)
    \/ \E f \in Files : readerLoad(f)
    \/ \E f \in Files : readerError(f)
    \/ \E c \in CropValues : onCropChange(c)
    \/ \E z \in ZoomValues : onZoomChange(z)
    \/ \E r \in RotationValues : onRotationChange(r)
    \/ \E a \in AreaValues : onCropComplete(a)
    \/ handleApplyCrop
    \/ \E a \in applies, o \in RenderOutcomes : croppedImgSettled(a, o)
    \/ \E a \in applies, o \in ComplianceOutcomes : complianceSettled(a, o)
    \/ reset
    \/ reCrop
    \/ accept
    \/ \E defines \in BOOLEAN : scriptOnload(defines)
    \/ scriptOnerror
    \/ onApprove
    \/ \E c \in CaptureKinds, o \in CaptureOutcomes : captureSettled(c, o)
    \/ \E c \in CaptureKinds, o \in VerifyOutcomes : verifySettled(c, o)
    \/ onError

Spec == Init /\ [][Next]_vars

\* ------------------------------------------- the verdict of handleApplyCrop
\* The lines of handleApplyCrop between its two awaits, for any value the
\* awaited getCroppedImg may resolve to, are checked on their own: from the
\* Crop screen with one apply-crop awaiting getCroppedImg, the call resumes
\* with a value drawn from the samples below.
SizeSamples ==
    {0, 1, MinSizeKb * BytesPerKb - 1, MinSizeKb * BytesPerKb, MinSizeKb * BytesPerKb + 1,
     BytesPerKb * BytesPerKb, MaxSizeKb * BytesPerKb - 1, MaxSizeKb * BytesPerKb,
     MaxSizeKb * BytesPerKb + 1, 2 * MaxSizeKb * BytesPerKb}

WidthSamples ==
    {0, MinWidth - 1, MinWidth, TARGET_WIDTH, MaxWidth, MaxWidth + 1, MaxHeight + 1}

HeightSamples ==
    {0, MinWidth, MinHeight - 1, MinHeight, TARGET_HEIGHT, MaxHeight, MaxHeight + 1}

ResolvedSamples ==
    [size : {Num(n) : n \in SizeSamples} \cup {Undefined},
     width : WidthSamples, height : HeightSamples]

AwaitingCrop ==
    [phase |-> "render", image |-> FileUrl("photo.jpg"), area |-> CHOOSE a \in AreaValues : TRUE,
     rotation |-> InitialRotation, sessionReset |-> FALSE]

\* The Crop screen of a fresh session, build u, after Verify Photo was
\* pressed: call a of handleApplyCrop is suspended at await getCroppedImg.
CropScreenAwaiting(u, a) ==
    /\ utils = u
    /\ step = "CROP"
    /\ image = a.image
    /\ croppedImage = Null
    /\ crop = InitialCrop
    /\ zoom = InitialZoom
    /\ rotation = a.rotation
    /\ croppedAreaPixels = a.area
    /\ loading = TRUE
    /\ compliance = Null
    /\ techResult = Null
    /\ paymentVerified = FALSE
    /\ paypalReady = FALSE
    /\ paymentError = Null
    /\ paymentLoading = FALSE
    /\ paypalRendered = FALSE
    /\ loadPromise = "null"
    /\ windowPaypal = FALSE
    /\ scripts = [loading |-> 0, loaded |-> 0]
    /\ button = FALSE
    /\ readers = EmptyBag
    /\ applies = {a}
    /\ sdkWaiters = {}
    /\ renders = 0
    /\ captures = [k \in CaptureKinds |-> 0]
    /\ ColdStart(EnvSet(TRUE), Endpoints, {})

VerdictInit == CropScreenAwaiting("plain", AwaitingCrop)

\* handleApplyCrop from the first await to the second, resumed with v
resumeWithValue(a, v) ==
    /\ a \in applies
    /\ a.phase = "render"
    /\ LET dataUrl == blobToDataUrl(drawCroppedImage(a.image, a.area, a.rotation), FullQuality)
       IN /\ croppedImage' = dataUrl
          /\ techResult' = TechnicalResult(v.size, v.width, v.height)
          /\ applies' = (applies \ {a}) \cup {AwaitCompliance(a, dataUrl)}
    /\ UNCHANGED <<serverVars, utils, step, loading, cropVars, image, compliance, payVars, sdkVars,
                   effectVars, readers>>

VerdictNext == \E a \in applies, v \in ResolvedSamples : resumeWithValue(a, v)

SpecVerdict == VerdictInit /\ [][VerdictNext]_vars

\* ------------------------------------------------ getCroppedImg on its own
\* getCroppedImg for crop rectangles and rotations of the whole range of the
\* Cropper and the rotation slider: handleApplyCrop resumes from
\* await getCroppedImg in a session that awaits one such call.
RotationSamples == {-180, -90, -1, 0, 45, 90, 180}

AreaSamples ==
    [x : {0, 10}, y : {0}, width : {1, 3, TARGET_WIDTH, MaxWidth + 1},
     height : {1, 4, TARGET_HEIGHT}]

RenderInit ==
    \E u \in ImageUtils, area \in AreaSamples, r \in RotationSamples :
        CropScreenAwaiting(u, [phase |-> "render", image |-> FileUrl("photo.jpg"),
                               area |-> area, rotation |-> r, sessionReset |-> FALSE])

RenderNext == \E a \in applies, o \in RenderOutcomes : croppedImgSettled(a, o)

SpecRender == RenderInit /\ [][RenderNext]_vars

\* ------------------------------------- getCroppedImg of imageUtils.ts by step
\* One call of getCroppedImg, await by await, held in applies: the canvas it
\* shares between the two encodings, and what each await resumes with.
\* canvas.toBlob encodes the pixels the canvas has when it is called.
EncodeInit ==
    \E area \in AreaSamples, r \in RotationSamples :
        CropScreenAwaiting("preview", [phase |-> "createImage", image |-> FileUrl("photo.jpg"),
                                       area |-> area, rotation |-> r])

EncodeUnchanged ==
    UNCHANGED <<serverVars, utils, step, loading, cropVars, photoVars, payVars, sdkVars, effectVars,
                readers>>

\* imageSettled with addWatermark called before the first canvasToBlob
imageSettledMarked(a, loaded, hasContext) ==
    /\ a \in applies
    /\ a.phase = "createImage"
    /\ applies' = (applies \ {a}) \cup
          {IF ~loaded THEN [phase |-> "rejected", reason |-> Str("image error event")]
           ELSE IF ~hasContext
           THEN [phase |-> "rejected", reason |-> Str("Could not get canvas context")]
           ELSE LET canvas == addWatermark(drawCroppedImage(a.image, a.area, a.rotation))
                IN [phase |-> "fullBlob", call |-> a, canvas |-> canvas,
                    encoding |-> blobToDataUrl(canvas, FullQuality)]}
    /\ EncodeUnchanged

\* await createImage is over; getContext, drawCroppedImage and the call of
\* canvasToBlob(canvas, 0.95) follow
imageSettled(a, loaded, hasContext) ==
    /\ a \in applies
    /\ a.phase = "createImage"
    /\ applies' = (applies \ {a}) \cup
          {IF ~loaded THEN [phase |-> "rejected", reason |-> Str("image error event")]
           ELSE IF ~hasContext
           THEN [phase |-> "rejected", reason |-> Str("Could not get canvas context")]
           ELSE LET canvas == drawCroppedImage(a.image, a.area, a.rotation)
                IN [phase |-> "fullBlob", call |-> a, canvas |-> canvas,
                    encoding |-> blobToDataUrl(canvas, FullQuality)]}
    /\ EncodeUnchanged

\* the toBlob callback of the full encoding: a blob of some size, or null,
\* on which the callback throws and the promise stays pending
fullBlobCallback(a, blob) ==
    /\ a \in applies
    /\ a.phase = "fullBlob"
    /\ applies' = (applies \ {a}) \cup
          {IF blob = Null THEN [phase |-> "hung"]
           ELSE [phase |-> "fullDataUrl", call |-> a.call, canvas |-> a.canvas,
                 fullBlob |-> [data |-> a.encoding, size |-> blob]]}
    /\ EncodeUnchanged

\* await blobToDataUrl(fullBlob) is over; addWatermark(ctx) and the call of
\* canvasToBlob(canvas, 0.7) follow
fullDataUrlLoadend(a) ==
    /\ a \in applies
    /\ a.phase = "fullDataUrl"
    /\ LET canvas == addWatermark(a.canvas)
       IN applies' = (applies \ {a}) \cup
             {[phase |-> "previewBlob", call |-> a.call, canvas |-> canvas,
               fullBlob |-> a.fullBlob, fullDataUrl |-> a.fullBlob.data,
               encoding |-> blobToDataUrl(canvas, PreviewQuality)]}
    /\ EncodeUnchanged

previewBlobCallback(a, blob) ==
    /\ a \in applies
    /\ a.phase = "previewBlob"
    /\ applies' = (applies \ {a}) \cup
          {IF blob = Null THEN [phase |-> "hung"]
           ELSE [phase |-> "previewDataUrl", call |-> a.call, canvas |-> a.canvas,
                 fullBlob |-> a.fullBlob, fullDataUrl |-> a.fullDataUrl,
                 previewBlob |-> [data |-> a.encoding, size |-> blob]]}
    /\ EncodeUnchanged

\* await blobToDataUrl(previewBlob) is over: the return statement
previewDataUrlLoadend(a) ==
    /\ a \in applies
    /\ a.phase = "previewDataUrl"
    /\ applies' = (applies \ {a}) \cup
          {[phase |-> "resolved", call |-> a.call, canvas |-> a.canvas,
            value |-> [previewUrl |-> a.previewBlob.data,
                       fullDataUrl |-> a.fullDataUrl,
                       fullSizeBytes |-> a.fullBlob.size,
                       width |-> TARGET_WIDTH,
                       height |-> TARGET_HEIGHT]]}
    /\ EncodeUnchanged

BlobSamples == {Null} \cup {Num(n) : n \in EncodedSizes}

EncodeNext ==
    \/ \E a \in applies, loaded \in BOOLEAN, hasContext \in BOOLEAN :
          imageSettled(a, loaded, hasContext)
    \/ \E a \in applies, blob \in BlobSamples : fullBlobCallback(a, blob)
    \/ \E a \in applies : fullDataUrlLoadend(a)
    \/ \E a \in applies, blob \in BlobSamples : previewBlobCallback(a, blob)
    \/ \E a \in applies : previewDataUrlLoadend(a)

SpecEncode == EncodeInit /\ [][EncodeNext]_vars

\* ============================================== the serverless functions of api/
\* A string the handlers test character by character is a sequence of
\* one-character strings.
Rep(c, n) == [i \in 1..n |-> c]

Upper ==
    {"A", "B", "C", "D", "E", "F", "G", "H", "I", "J", "K", "L", "M",
     "N", "O", "P", "Q", "R", "S", "T", "U", "V", "W", "X", "Y", "Z"}
Lower ==
    {"a", "b", "c", "d", "e", "f", "g", "h", "i", "j", "k", "l", "m",
     "n", "o", "p", "q", "r", "s", "t", "u", "v", "w", "x", "y", "z"}
Digits == {"0", "1", "2", "3", "4", "5", "6", "7", "8", "9"}
Whitespace == {" "}

IsPrefix(p, s) == Len(p) <= Len(s) /\ SubSeq(s, 1, Len(p)) = p

\* typeof v === 'string'
IsString(v) == DOMAIN v = {"str"}

\* !v of a value a JSON body can carry
Falsy(v) == v \in {Undefined, Null, NaN, Num(0), Str(<<>>)}

\* /^[A-Za-z0-9-]{10,50}$/.test(s)
OrderIdPattern(s) ==
    /\ Len(s) >= 10
    /\ Len(s) <= 50
    /\ \A i \in 1..Len(s) : s[i] \in Upper \cup Lower \cup Digits \cup {"-"}

\* /^[a-f0-9-]{36}$/.test(s)
PhotoIdPattern(s) ==
    /\ Len(s) = 36
    /\ \A i \in 1..Len(s) : s[i] \in {"a", "b", "c", "d", "e", "f"} \cup Digits \cup {"-"}

\* /^[^\s@]+@[^\s@]+\.[^\s@]+$/.test(email)
isValidEmail(email) ==
    \E at \in 2..Len(email) :
        /\ email[at] = "@"
        /\ \A i \in 1..Len(email) : email[i] \notin Whitespace /\ (email[i] = "@" => i = at)
        /\ \E dot \in (at + 2)..(Len(email) - 1) : email[dot] = "."

\* `${v}` in a template literal
Template(v) == IF v = Undefined THEN "undefined" ELSE IF v = Null THEN "null" ELSE v.str

\* --------------------------------------------------------------- rate limiter
RATE_LIMIT_WINDOW_MS == 60000
RATE_LIMIT_MAX_PAYMENT == 5
RATE_LIMIT_MAX_COMPLIANCE == 10

\* RATE_LIMIT_MAX of the file of function e
RATE_LIMIT_MAX(e) ==
    IF e \in {"check-compliance", "download-photo"}
    THEN RATE_LIMIT_MAX_COMPLIANCE
    ELSE RATE_LIMIT_MAX_PAYMENT

\* ipHits.get(ip) ?? []
HitsOf(hits, ip) == IF ip \in DOMAIN hits THEN hits[ip] ELSE <<>>

\* ipHits.set(ip, recent)
MapSet(hits, ip, recent) ==
    [k \in DOMAIN hits \cup {ip} |-> IF k = ip THEN recent ELSE hits[k]]

\* isRateLimited that records a call only when it lets it pass
isRateLimitedForgetful(hits, ip, t, max) ==
    LET recent == SelectSeq(HitsOf(hits, ip), LAMBDA h : t - h < RATE_LIMIT_WINDOW_MS)
    IN IF Len(recent) + 1 > max
       THEN [hits |-> MapSet(hits, ip, recent), limited |-> TRUE]
       ELSE [hits |-> MapSet(hits, ip, Append(recent, t)), limited |-> FALSE]

\* isRateLimited(ip) of a function whose Map is hits, called at time t: the
\* Map afterwards and the value returned
isRateLimited(hits, ip, t, max) ==
    LET recent == Append(SelectSeq(HitsOf(hits, ip), LAMBDA h : t - h < RATE_LIMIT_WINDOW_MS), t)
    IN [hits |-> MapSet(hits, ip, recent), limited |-> Len(recent) > max]

\* ----------------------------------------------------------------------- CORS
\* Origins are told apart by name; PreviewOrigins are the sampled ones that
\* match /^https:\/\/nz-passport-photos[a-z0-9-]*\.vercel\.app$/.
OriginSamples ==
    {Undefined, Str("https://nzpassport.photos"),
     Str("https://nz-passport-photos-git-main.vercel.app"), Str("https://evil.example")}
PreviewOrigins ==
    {"https://nz-passport-photos.vercel.app", "https://nz-passport-photos-git-main.vercel.app"}

ALLOWED_ORIGINS(e) ==
    {"https://nzpassport.photos", "https://www.nzpassport.photos", "http://localhost:3000"}
    \cup IF e = "check-compliance" THEN {"https://nz-passport-photos.vercel.app"} ELSE {}

getAllowedOrigin(e, origin) ==
    IF origin = Undefined \/ origin = Str("") THEN Null
    ELSE IF origin.str \in ALLOWED_ORIGINS(e) THEN origin
    ELSE IF e # "check-compliance" /\ origin.str \in PreviewOrigins THEN origin
    ELSE Null

\* ------------------------------------------------------------------- requests
\* (x-forwarded-for)?.split(',')[0]?.trim() ?? req.socket?.remoteAddress ?? 'unknown'
\* forwardedFor holds the header already split at its commas
ClientIp(req) ==
    IF req.forwardedFor # Undefined
    THEN req.forwardedFor.str[1]
    ELSE IF req.remoteAddress # Undefined THEN req.remoteAddress.str ELSE "unknown"

Request(e, method, origin, peer, body) ==
    [endpoint |-> e, method |-> method, origin |-> origin,
     forwardedFor |-> peer.forwardedFor, remoteAddress |-> peer.remoteAddress,
     body |-> body]

\* who sends: through a proxy, directly, or with neither header nor socket address
ProxiedPeer == [forwardedFor |-> Str(<<"203.0.113.7", "10.0.0.1">>), remoteAddress |-> Str("10.0.0.1")]
DirectPeer == [forwardedFor |-> Undefined, remoteAddress |-> Str("198.51.100.9")]
UnknownPeer == [forwardedFor |-> Undefined, remoteAddress |-> Undefined]

\* ------------------------------------------------------------------ responses
NoBody == [empty |-> TRUE]
Json(status, body) == [status |-> status, body |-> body]
End(status) == [status |-> status, body |-> NoBody]
\* the handler is at `await`: the call it waits for, and what it holds
Await(call, locals) == [await |-> call, locals |-> locals]
Continue == [continue |-> TRUE]
Responds(out) == "status" \in DOMAIN out
Threw == [threw |-> TRUE]

\* a boolean held where undefined may also be held
Bool(b) == [bool |-> b]

ErrorBody(message) == [error |-> message]

\* a UUID of one repeated digit
Uuid(c) ==
    Rep(c, 8) \o <<"-">> \o Rep(c, 4) \o <<"-">> \o Rep(c, 4) \o <<"-">> \o Rep(c, 4)
    \o <<"-">> \o Rep(c, 12)

\* the blob put by store-photo for uuid at time t, and one of another directory
PhotoBlob(uuid, t) ==
    [dir |-> "photos/", file |-> uuid \o <<".", "j", "p", "g">>, uploadedAt |-> t]
OtherBlob(t) == [dir |-> "exports/", file |-> <<"a", ".", "c", "s", "v">>, uploadedAt |-> t]

\* list({prefix: dir + rest}) of the store
Listed(blobs, dir, rest) == {b \in blobs : b.dir = dir /\ IsPrefix(rest, b.file)}

\* ------------------------------------------------------ a handler's first part
\* Each handler from its first line to its first await or its response, in
\* the order of the code.  The result is a response, an Await, or Continue.

\* OPTIONS, the method and the origin: the same lines in all five handlers
preflight(req) ==
    IF req.method = "OPTIONS" THEN End(204)
    ELSE IF req.method # "POST" THEN Json(405, ErrorBody("Method not allowed"))
    ELSE IF env.production /\ getAllowedOrigin(req.endpoint, req.origin) = Null
    THEN Json(403, ErrorBody("Forbidden"))
    ELSE Continue

\* const { ... } = req.body ?? {}
BodyField(req, name) == Prop(Coalesce(req.body, EmptyObject), name)

\* verify-payment after the rate limiter, to its first fetch
verifyPaymentBody(req) ==
    LET orderID == BodyField(req, "orderID")
    IN IF Falsy(orderID) \/ ~IsString(orderID)
       THEN Json(400, [verified |-> FALSE, error |-> "Missing or invalid orderID"])
       ELSE IF ~OrderIdPattern(orderID.str)
       THEN Json(400, [verified |-> FALSE, error |-> "Invalid orderID format"])
       ELSE IF ~env.paypal
       THEN Json(500, [verified |-> FALSE, error |-> "Server configuration error"])
       ELSE Await("paypal-token", [orderID |-> orderID])

\* the image field of store-photo and check-compliance; a base64 string of
\* n characters is [chars |-> n]
imageCheck(req, missing) ==
    LET data == BodyField(req, "image")
    IN IF Falsy(data) \/ DOMAIN data # {"chars"} \/ data.chars = 0
       THEN Json(400, ErrorBody(missing))
       ELSE IF data.chars > MaxImageLength
       THEN Json(413, ErrorBody("Image too large"))
       ELSE Continue

\* store-photo after the rate limiter, to await put; uuid is randomUUID()
storePhotoBody(req, uuid) ==
    LET checked == imageCheck(req, "Missing or invalid image data")
    IN IF checked # Continue THEN checked ELSE Await("blob-put", [uuid |-> uuid])

\* check-compliance after the rate limiter, to await generateContent
checkComplianceBody(req) ==
    LET checked == imageCheck(req, "Missing or invalid \"image\" field")
    IN IF checked # Continue THEN checked
       ELSE IF ~env.geminiKey THEN Json(500, ErrorBody("Server configuration error"))
       ELSE Await("gemini", EmptyObject)

photoIdCheck(req) ==
    LET photoId == BodyField(req, "photoId")
    IN IF Falsy(photoId) \/ ~IsString(photoId)
       THEN Json(400, ErrorBody("Missing or invalid photoId"))
       ELSE IF ~PhotoIdPattern(photoId.str)
       THEN Json(400, ErrorBody("Invalid photoId format"))
       ELSE Continue

orderIdCheck(req) ==
    LET orderID == BodyField(req, "orderID")
    IN IF Falsy(orderID) \/ ~IsString(orderID)
       THEN Json(400, ErrorBody("Missing or invalid orderID"))
       ELSE IF ~OrderIdPattern(orderID.str)
       THEN Json(400, ErrorBody("Invalid orderID format"))
       ELSE Continue

\* verifyPayPalOrder(orderID) to its first fetch: without credentials it
\* returns false, which the handlers answer with 403
verifyPayPalOrderStart(locals) ==
    IF ~env.paypal
    THEN Json(403, ErrorBody("Payment not completed for this order"))
    ELSE Await("paypal-token", locals)

\* download-photo after the rate limiter
downloadPhotoBody(req) ==
    IF photoIdCheck(req) # Continue THEN photoIdCheck(req)
    ELSE IF orderIdCheck(req) # Continue THEN orderIdCheck(req)
    ELSE verifyPayPalOrderStart([photoId |-> BodyField(req, "photoId"),
                                 orderID |-> BodyField(req, "orderID")])

\* send-download-email after the rate limiter
sendEmailBody(req) ==
    LET email == BodyField(req, "email")
    IN IF Falsy(email) \/ ~IsString(email) \/ ~isValidEmail(email.str)
       THEN Json(400, ErrorBody("Missing or invalid email address"))
       ELSE IF photoIdCheck(req) # Continue THEN photoIdCheck(req)
       ELSE IF orderIdCheck(req) # Continue THEN orderIdCheck(req)
       ELSE IF ~env.resendKey THEN Json(500, ErrorBody("Server configuration error"))
       ELSE verifyPayPalOrderStart([email |-> email,
                                    photoId |-> BodyField(req, "photoId"),
                                    orderID |-> BodyField(req, "orderID")])

\* the part of handler e after the rate limiter
bodyOf(req, uuid) ==
    CASE req.endpoint = "verify-payment" -> verifyPaymentBody(req)
      [] req.endpoint = "store-photo" -> storePhotoBody(req, uuid)
      [] req.endpoint = "check-compliance" -> checkComplianceBody(req)
      [] req.endpoint = "download-photo" -> downloadPhotoBody(req)
      [] req.endpoint = "send-download-email" -> sendEmailBody(req)

\* a handler that consults the rate limiter on its first line
entryLimiterFirst(req, uuid, hits) ==
    LET rl == isRateLimited(hits, ClientIp(req), now, RATE_LIMIT_MAX(req.endpoint))
    IN [hits |-> rl.hits, limited |-> Bool(rl.limited),
        out |-> IF rl.limited
                THEN Json(429, ErrorBody("Too many requests. Please wait a moment."))
                ELSE IF preflight(req) # Continue THEN preflight(req)
                ELSE bodyOf(req, uuid)]

\* a handler to its first await or its response, with the function's Map
\* hits: the Map afterwards, what isRateLimited returned if it was called,
\* and the response or the await
entry(req, uuid, hits) ==
    IF preflight(req) # Continue
    THEN [hits |-> hits, limited |-> Undefined, out |-> preflight(req)]
    ELSE LET rl == isRateLimited(hits, ClientIp(req), now, RATE_LIMIT_MAX(req.endpoint))
         IN [hits |-> rl.hits, limited |-> Bool(rl.limited),
             out |-> IF rl.limited
                     THEN Json(429, ErrorBody("Too many requests. Please wait a moment."))
                     ELSE bodyOf(req, uuid)]

\* ------------------------------------------------------- after each await
\* What the handler of invocation inv does when the call it awaits settles
\* with o.  A fetch and the .json() of its response are one call: either
\* may throw, into the same catch.
TokenOutcomes == {Threw, EmptyObject, [access_token |-> Str("A21AAF")]}
OrderOutcomes ==
    {Threw, [status |-> Str("COMPLETED")], [status |-> Str("APPROVED")],
     [name |-> Str("RESOURCE_NOT_FOUND")]}

afterToken(inv, o) ==
    IF inv.req.endpoint = "verify-payment"
    THEN IF o = Threw
         THEN Json(500, [verified |-> FALSE, error |-> "Failed to verify payment with PayPal"])
         ELSE IF Falsy(Prop(o, "access_token"))
         THEN Json(500, [verified |-> FALSE, error |-> "Payment service error"])
         ELSE Await("paypal-order", inv.locals)
    ELSE IF o = Threw THEN Json(500, ErrorBody("Failed to verify payment"))
         ELSE IF Falsy(Prop(o, "access_token"))
         THEN Json(403, ErrorBody("Payment not completed for this order"))
         ELSE Await("paypal-order", inv.locals)

\* download-photo that looks the photo up whatever verifyPayPalOrder returned
afterOrderUngated(inv, o) ==
    IF inv.req.endpoint = "verify-payment"
    THEN IF o = Threw
         THEN Json(500, [verified |-> FALSE, error |-> "Failed to verify payment with PayPal"])
         ELSE IF Prop(o, "status") = Str("COMPLETED")
         THEN Json(200, [verified |-> TRUE, orderID |-> inv.locals.orderID])
         ELSE Json(200, [verified |-> FALSE, orderID |-> inv.locals.orderID,
                         error |-> "Payment not completed"])
    ELSE IF o = Threw THEN Json(500, ErrorBody("Failed to verify payment"))
         ELSE Await("blob-list", inv.locals)

\* verify-payment that answers verified: true for every order the provider knows
afterOrderAnyStatus(inv, o) ==
    IF inv.req.endpoint = "verify-payment"
    THEN IF o = Threw
         THEN Json(500, [verified |-> FALSE, error |-> "Failed to verify payment with PayPal"])
         ELSE IF Prop(o, "status") # Undefined
         THEN Json(200, [verified |-> TRUE, orderID |-> inv.locals.orderID])
         ELSE Json(200, [verified |-> FALSE, orderID |-> inv.locals.orderID,
                         error |-> "Payment not completed"])
    ELSE IF o = Threw THEN Json(500, ErrorBody("Failed to verify payment"))
         ELSE IF Prop(o, "status") # Str("COMPLETED")
         THEN Json(403, ErrorBody("Payment not completed for this order"))
         ELSE Await("blob-list", inv.locals)

afterOrder(inv, o) ==
    IF inv.req.endpoint = "verify-payment"
    THEN IF o = Threw
         THEN Json(500, [verified |-> FALSE, error |-> "Failed to verify payment with PayPal"])
         ELSE IF Prop(o, "status") = Str("COMPLETED")
         THEN Json(200, [verified |-> TRUE, orderID |-> inv.locals.orderID])
         ELSE Json(200, [verified |-> FALSE, orderID |-> inv.locals.orderID,
                         error |-> "Payment not completed"])
    ELSE IF o = Threw THEN Json(500, ErrorBody("Failed to verify payment"))
         ELSE IF Prop(o, "status") # Str("COMPLETED")
         THEN Json(403, ErrorBody("Payment not completed for this order"))
         ELSE Await("blob-list", inv.locals)

\* the outcomes of list({prefix: `photos/${photoId}`}): it throws, or yields
\* the blobs of the store with that prefix
ListOutcomes(inv) ==
    {Threw} \cup IF inv.await = "blob-list"
                 THEN {[blobs |-> Listed(store, "photos/", inv.locals.photoId.str)]}
                 ELSE {}

\* send-download-email that mails although list found no blob
afterListUnchecked(inv, o) ==
    IF o = Threw THEN Json(500, ErrorBody("Failed to retrieve photo"))
    ELSE IF inv.req.endpoint = "download-photo"
    THEN IF o.blobs = {} THEN Json(404, ErrorBody("Photo not found"))
         ELSE Json(200, [downloadUrl |-> CHOOSE b \in o.blobs : TRUE])
    ELSE Await("blob-fetch", inv.locals)

afterList(inv, o) ==
    IF o = Threw THEN Json(500, ErrorBody("Failed to retrieve photo"))
    ELSE IF o.blobs = {} THEN Json(404, ErrorBody("Photo not found"))
    ELSE IF inv.req.endpoint = "download-photo"
    THEN Json(200, [downloadUrl |-> CHOOSE b \in o.blobs : TRUE])
    ELSE Await("blob-fetch", inv.locals)

\* send-download-email: the photo's bytes are fetched, then the mail is posted
FetchedOutcomes == {Threw, [bytes |-> TRUE]}
afterBlobFetch(inv, o) ==
    IF o = Threw THEN Json(500, ErrorBody("Failed to retrieve photo"))
    ELSE Await("resend", inv.locals)

ResendOutcomes == {Threw, [ok |-> TRUE], [ok |-> FALSE]}
afterResend(inv, o) ==
    IF o = Threw THEN Json(500, [sent |-> FALSE, error |-> "Internal server error"])
    ELSE IF ~o.ok THEN Json(502, [sent |-> FALSE, error |-> "Failed to send email"])
    ELSE Json(200, [sent |-> TRUE])

PutOutcomes == {Threw, [stored |-> TRUE]}
afterPut(inv, o) ==
    IF o = Threw THEN Json(500, ErrorBody("Failed to store photo"))
    ELSE Json(200, [photoId |-> Str(inv.locals.uuid)])

\* check-compliance: generateContent throws, or its text is parsed and sent
GenerateOutcomes == {Threw, [passed |-> TRUE], [passed |-> FALSE]}
afterGenerate(inv, o) ==
    IF o = Threw THEN Json(500, [passed |-> FALSE, score |-> 0])
    ELSE Json(200, o)

\* -------------------------------------------------------------------- actions
\* an invocation suspended at out's await, entered at time at
Suspended(req, at, limited, calls, out) ==
    [req |-> req, at |-> at, limited |-> limited, calls |-> calls,
     await |-> out.await, locals |-> out.locals]

\* the response out, with the request it answers, the time the handler was
\* entered, what isRateLimited returned and the calls that settled on the way
Answer(req, at, limited, calls, out) ==
    [req |-> req, at |-> at, limited |-> limited, calls |-> calls,
     status |-> out.status, body |-> out.body]

\* Date.now() advances by d
tick(d) ==
    /\ now + d <= MaxClock
    /\ now' = now + d
    /\ UNCHANGED <<clientVars, env, ipHits, store, inflight, answered>>

\* A request for one of the rate-limited functions arrives: the handler runs
\* to its first await or to its response.  uuid is what randomUUID() gives.
handler(req, uuid) ==
    /\ req.endpoint \in DOMAIN ipHits
    /\ Cardinality(inflight) < MaxInflight
    /\ LET r == entry(req, uuid, ipHits[req.endpoint])
       IN /\ ipHits' = [ipHits EXCEPT ![req.endpoint] = r.hits]
          /\ IF Responds(r.out)
             THEN /\ answered' = Answer(req, now, r.limited, <<>>, r.out)
                  /\ UNCHANGED inflight
             ELSE /\ Suspended(req, now, r.limited, <<>>, r.out) \notin inflight
                  /\ inflight' = inflight \cup {Suspended(req, now, r.limited, <<>>, r.out)}
                  /\ UNCHANGED answered
    /\ UNCHANGED <<clientVars, env, now, store>>

\* the call inv awaits settles with o, and the handler goes on to out
resume(inv, call, o, out) ==
    /\ inv \in inflight
    /\ inv.await = call
    /\ LET calls == Append(inv.calls, [call |-> call, result |-> o])
       IN IF Responds(out)
          THEN /\ answered' = Answer(inv.req, inv.at, inv.limited, calls, out)
               /\ inflight' = inflight \ {inv}
          ELSE /\ inflight' = (inflight \ {inv})
                                \cup {Suspended(inv.req, inv.at, inv.limited, calls, out)}
               /\ UNCHANGED answered
    /\ UNCHANGED <<clientVars, env, now, ipHits>>

tokenSettled(inv, o) ==
    resume(inv, "paypal-token", o, afterToken(inv, o)) /\ UNCHANGED store

orderSettled(inv, o) ==
    resume(inv, "paypal-order", o, afterOrder(inv, o)) /\ UNCHANGED store

listSettled(inv, o) ==
    resume(inv, "blob-list", o, afterList(inv, o)) /\ UNCHANGED store

blobFetched(inv, o) ==
    resume(inv, "blob-fetch", o, afterBlobFetch(inv, o)) /\ UNCHANGED store

resendSettled(inv, o) ==
    resume(inv, "resend", o, afterResend(inv, o)) /\ UNCHANGED store

\* put(`photos/${uuid}.jpg`, ...) with addRandomSuffix: false
putSettled(inv, o) ==
    /\ resume(inv, "blob-put", o, afterPut(inv, o))
    /\ store' = IF o = Threw THEN store
                ELSE LET blob == PhotoBlob(inv.locals.uuid, now)
                     IN {b \in store : b.dir # blob.dir \/ b.file # blob.file} \cup {blob}

generateSettled(inv, o) ==
    resume(inv, "gemini", o, afterGenerate(inv, o)) /\ UNCHANGED store

\* --------------------------------------------------------------- cleanup-photos
MAX_AGE_MS == 86400000
ListLimit == 100

\* cursor = result.hasMore ? result.cursor : undefined, and the while (cursor)
afterPage(locals, deleted) ==
    IF locals.page.hasMore /\ ~Falsy(locals.page.cursor)
    THEN Await("blob-list-page",
               [cutoff |-> locals.cutoff, deleted |-> deleted, cursor |-> locals.page.cursor])
    ELSE Json(200, [deleted |-> deleted])

\* the handler of cleanup-photos to its first await list(...)
cleanupPhotos(req) ==
    /\ Cardinality(inflight) < MaxInflight
    /\ IF req.authorization # Str("Bearer " \o Template(env.cronSecret))
       THEN /\ answered' = Answer(req, now, Undefined, <<>>, Json(401, ErrorBody("Unauthorized")))
            /\ UNCHANGED inflight
       ELSE LET out == Await("blob-list-page",
                             [cutoff |-> now - MAX_AGE_MS, deleted |-> 0, cursor |-> Undefined])
            IN /\ Suspended(req, now, Undefined, <<>>, out) \notin inflight
               /\ inflight' = inflight \cup {Suspended(req, now, Undefined, <<>>, out)}
               /\ UNCHANGED answered
    /\ UNCHANGED <<clientVars, env, now, ipHits, store>>

\* What list({prefix: 'photos/', cursor, limit: 100}) may yield.  The cursor
\* stands for the blobs listed so far; a page holds some of the others, at
\* most limit of them, and hasMore tells whether any are left.
PageOutcomes(inv) ==
    IF inv.await # "blob-list-page" THEN {Threw}
    ELSE
    LET seen == IF inv.locals.cursor = Undefined THEN {} ELSE inv.locals.cursor.seen
        rest == {b \in Listed(store, "photos/", <<>>) : [dir |-> b.dir, file |-> b.file] \notin seen}
    IN {Threw} \cup
       {[blobs |-> page, hasMore |-> page # rest,
         cursor |-> [seen |-> seen \cup {[dir |-> b.dir, file |-> b.file] : b \in page}]] :
          page \in {p \in SUBSET rest : Cardinality(p) <= ListLimit /\ (p = {} => rest = {})}}

\* await list(...) is over: the filter, and del(...) if any blob is old.  A
\* rejection nothing catches ends the invocation with the platform's 500.
afterListPage(inv, o) ==
    IF o = Threw THEN End(500)
    ELSE LET old == {b \in o.blobs : b.uploadedAt < inv.locals.cutoff}
         IN IF old # {}
            THEN Await("blob-del", [cutoff |-> inv.locals.cutoff, deleted |-> inv.locals.deleted,
                                    page |-> o, old |-> old])
            ELSE afterPage([cutoff |-> inv.locals.cutoff, page |-> o], inv.locals.deleted)

pageListed(inv, o) ==
    resume(inv, "blob-list-page", o, afterListPage(inv, o)) /\ UNCHANGED store

DelOutcomes(inv) ==
    {Threw} \cup IF inv.await = "blob-del" THEN {[deleted |-> inv.locals.old]} ELSE {}

\* await del(old.map((b) => b.url)) is over; deleted += old.length
afterDel(inv, o) ==
    IF o = Threw THEN End(500)
    ELSE afterPage(inv.locals, inv.locals.deleted + Cardinality(inv.locals.old))

pageDeleted(inv, o) ==
    /\ resume(inv, "blob-del", o, afterDel(inv, o))
    /\ store' = IF o = Threw THEN store
                ELSE {b \in store : \A d \in o.deleted : b.dir # d.dir \/ b.file # d.file}

\* -------------------------------------------------------------- specifications
\* No session of the wizard is open while the functions are looked at.
NoSession == InitClient /\ utils = "preview"

\* One function at a time, from the start of its instance.

\* the rate limiter: requests of two clients that pass the method and origin
\* checks, at times on both sides of the window's edge
RateLimitSteps == {RATE_LIMIT_WINDOW_MS - 1, RATE_LIMIT_WINDOW_MS}
RateLimitRequests(e) ==
    {Request(e, "POST", Undefined, peer, Undefined) : peer \in {ProxiedPeer, DirectPeer}}

\* requests are sent as long as no client has more than MaxOverLimit hits
\* over the limit on record
Within(e) ==
    \A ip \in DOMAIN ipHits[e] : Len(ipHits[e][ip]) < RATE_LIMIT_MAX(e) + MaxOverLimit

RateLimitInit == NoSession /\ \E e \in Endpoints : ColdStart(EnvSet(FALSE), {e}, {})

RateLimitNext ==
    \/ \E d \in RateLimitSteps : tick(d)
    \/ \E e \in DOMAIN ipHits : \E req \in RateLimitRequests(e) :
          Within(e) /\ handler(req, Uuid("a"))

SpecRateLimit == RateLimitInit /\ [][RateLimitNext]_vars

\* The handlers: requests of one client, in production or not, with the
\* environment variables set or not.
Methods == {"OPTIONS", "GET", "POST"}
SiteOrigin == Str("https://nzpassport.photos")
GoodOrderId == Str(<<"5", "O", "1", "9", "0", "1", "2", "7", "T", "N", "-", "x", "y">>)

OrderIdSamples ==
    {Undefined, Num(1234567890), Str(<<>>), Str(Rep("A", 9)), Str(Rep("A", 10)),
     Str(Rep("z", 50)), Str(Rep("5", 51)), Str(Rep("A", 10) \o <<"!">>), GoodOrderId}

HandlerInit(e, envs, blobs) == NoSession /\ \E v \in envs : ColdStart(v, {e}, blobs)

\* verify-payment
VerifyPaymentRequests ==
    {Request("verify-payment", m, o, UnknownPeer, [orderID |-> GoodOrderId]) :
        m \in Methods, o \in OriginSamples}
    \cup {Request("verify-payment", "POST", SiteOrigin, UnknownPeer, b) :
             b \in {Undefined} \cup {[orderID |-> x] : x \in OrderIdSamples}}

VerifyPaymentNext ==
    \/ tick(RATE_LIMIT_WINDOW_MS)
    \/ \E req \in VerifyPaymentRequests : Within(req.endpoint) /\ handler(req, Uuid("a"))
    \/ \E inv \in inflight, o \in TokenOutcomes : tokenSettled(inv, o)
    \/ \E inv \in inflight, o \in OrderOutcomes : orderSettled(inv, o)

SpecVerifyPayment == HandlerInit("verify-payment", EnvSamples, {}) /\ [][VerifyPaymentNext]_vars

\* all five rate-limited handlers, with a body that passes validation or none
GoodEmail == Str(<<"k", "u", "r", "a", "@", "e", "x", "a", "m", "p", "l", "e", ".", "n", "z">>)
ImageData(n) == [chars |-> n]

GoodBody(e) ==
    CASE e = "verify-payment" -> [orderID |-> GoodOrderId]
      [] e \in {"store-photo", "check-compliance"} -> [image |-> ImageData(4000)]
      [] e = "download-photo" -> [photoId |-> Str(Uuid("a")), orderID |-> GoodOrderId]
      [] e = "send-download-email" ->
            [email |-> GoodEmail, photoId |-> Str(Uuid("a")), orderID |-> GoodOrderId]

HandlerRequests(e) ==
    {Request(e, m, o, UnknownPeer, b) :
        m \in Methods, o \in OriginSamples, b \in {Undefined, GoodBody(e)}}

\* the photos in the store when the instance starts: uploaded before it
StoredBefore == {PhotoBlob(Uuid("a"), -1)}

HandlersInit == \E e \in Endpoints : HandlerInit(e, {EnvSet(TRUE), EnvSet(FALSE)}, StoredBefore)

HandlersNext ==
    \/ tick(RATE_LIMIT_WINDOW_MS)
    \/ \E e \in DOMAIN ipHits : \E req \in HandlerRequests(e) :
          Within(e) /\ handler(req, Uuid("0"))
    \/ \E inv \in inflight, o \in TokenOutcomes : tokenSettled(inv, o)
    \/ \E inv \in inflight, o \in OrderOutcomes : orderSettled(inv, o)
    \/ \E inv \in inflight : \E o \in ListOutcomes(inv) : listSettled(inv, o)
    \/ \E inv \in inflight, o \in FetchedOutcomes : blobFetched(inv, o)
    \/ \E inv \in inflight, o \in ResendOutcomes : resendSettled(inv, o)
    \/ \E inv \in inflight, o \in PutOutcomes : putSettled(inv, o)
    \/ \E inv \in inflight, o \in GenerateOutcomes : generateSettled(inv, o)

SpecHandlers == HandlersInit /\ [][HandlersNext]_vars

\* download-photo
PhotoIdSamples ==
    {Undefined, Num(36), Str(<<>>), Str(Uuid("a")), Str(Uuid("0")), Str(Uuid("A")),
     Str(Uuid("g")), Str(Rep("a", 35)), Str(Rep("-", 37))}

DownloadPhotoRequests ==
    {Request("download-photo", m, SiteOrigin, UnknownPeer, GoodBody("download-photo")) :
        m \in Methods}
    \cup {Request("download-photo", "POST", SiteOrigin, UnknownPeer, b) :
             b \in {Undefined}
                   \cup {[photoId |-> p, orderID |-> GoodOrderId] : p \in PhotoIdSamples}
                   \cup {[photoId |-> Str(Uuid("a")), orderID |-> x] : x \in OrderIdSamples}}

DownloadPhotoNext ==
    \/ tick(RATE_LIMIT_WINDOW_MS)
    \/ \E req \in DownloadPhotoRequests : Within(req.endpoint) /\ handler(req, Uuid("0"))
    \/ \E inv \in inflight, o \in TokenOutcomes : tokenSettled(inv, o)
    \/ \E inv \in inflight, o \in OrderOutcomes : orderSettled(inv, o)
    \/ \E inv \in inflight : \E o \in ListOutcomes(inv) : listSettled(inv, o)

SpecDownloadPhoto ==
    HandlerInit("download-photo", {EnvSet(TRUE), EnvUnset(FALSE)}, StoredBefore)
      /\ [][DownloadPhotoNext]_vars

\* send-download-email
EmailSamples ==
    {Undefined, Num(7), Str(<<>>), GoodEmail,
     Str(<<"k", "u", "r", "a", "@", "n", "z">>),
     Str(<<"k", " ", "a", "@", "e", "x", ".", "n", "z">>),
     Str(<<"a", "@", "b", "@", "e", "x", ".", "n", "z">>),
     Str(<<"@", "e", "x", ".", "n", "z">>),
     Str(<<"a", "@", "e", "x", ".">>)}

SendEmailRequests ==
    {Request("send-download-email", m, SiteOrigin, UnknownPeer,
             GoodBody("send-download-email")) : m \in Methods}
    \cup {Request("send-download-email", "POST", SiteOrigin, UnknownPeer, b) :
             b \in {Undefined}
                   \cup {[email |-> m, photoId |-> Str(Uuid("a")), orderID |-> GoodOrderId] :
                            m \in EmailSamples}
                   \cup {[email |-> GoodEmail, photoId |-> p, orderID |-> GoodOrderId] :
                            p \in PhotoIdSamples}
                   \cup {[email |-> GoodEmail, photoId |-> Str(Uuid("a")), orderID |-> x] :
                            x \in OrderIdSamples}
                   \cup {[email |-> Str(<<>>), photoId |-> Str(Uuid("g")), orderID |-> Undefined],
                         [email |-> GoodEmail, photoId |-> Str(Uuid("g")), orderID |-> Undefined]}}

SendEmailNext ==
    \/ tick(RATE_LIMIT_WINDOW_MS)
    \/ \E req \in SendEmailRequests : Within(req.endpoint) /\ handler(req, Uuid("0"))
    \/ \E inv \in inflight, o \in TokenOutcomes : tokenSettled(inv, o)
    \/ \E inv \in inflight, o \in OrderOutcomes : orderSettled(inv, o)
    \/ \E inv \in inflight : \E o \in ListOutcomes(inv) : listSettled(inv, o)
    \/ \E inv \in inflight, o \in FetchedOutcomes : blobFetched(inv, o)
    \/ \E inv \in inflight, o \in ResendOutcomes : resendSettled(inv, o)

SpecSendEmail ==
    HandlerInit("send-download-email",
                {EnvSet(TRUE), EnvUnset(FALSE), [EnvSet(FALSE) EXCEPT !.paypal = FALSE]},
                StoredBefore)
      /\ [][SendEmailNext]_vars

\* cleanup-photos: the cron request and others, over a store that holds
\* photos uploaded a day and a minute, exactly a day, and less than a day
\* before the instance started, and a blob of another directory
CleanupRequests ==
    {[endpoint |-> "cleanup-photos", authorization |-> a] :
        a \in {Undefined, Str("Bearer s3cret"), Str("Bearer guess"), Str("Bearer undefined")}}

StoreSamples ==
    {{},
     {PhotoBlob(Uuid("a"), 0 - MAX_AGE_MS - RATE_LIMIT_WINDOW_MS),
      PhotoBlob(Uuid("b"), 0 - MAX_AGE_MS),
      PhotoBlob(Uuid("c"), 0 - MAX_AGE_MS - 1),
      PhotoBlob(Uuid("0"), 0 - RATE_LIMIT_WINDOW_MS),
      OtherBlob(0 - MAX_AGE_MS - RATE_LIMIT_WINDOW_MS)}}

CleanupInit ==
    NoSession /\ \E v \in {EnvSet(TRUE), EnvUnset(TRUE)}, blobs \in StoreSamples :
                    ColdStart(v, {}, blobs)

CleanupNext ==
    \/ tick(RATE_LIMIT_WINDOW_MS)
    \/ \E req \in CleanupRequests : cleanupPhotos(req)
    \/ \E inv \in inflight : \E o \in PageOutcomes(inv) : pageListed(inv, o)
    \/ \E inv \in inflight : \E o \in DelOutcomes(inv) : pageDeleted(inv, o)

SpecCleanup == CleanupInit /\ [][CleanupNext]_vars

\* ================================================================ claims

\* C1: the step becomes PAYMENT only by the accept action, taken while
\* techResult.sizeValid and compliance.passed are both true.
TheoremC1 ==
    [][(step # "PAYMENT" /\ step' = "PAYMENT")
         => /\ accept
            /\ step = "VALIDATE"
            /\ Truthy(techResult) /\ techResult.sizeValid
            /\ Truthy(compliance) /\ compliance.passed]_vars

WitnessC1 ==
    /\ step = "PAYMENT"
    /\ Truthy(techResult) /\ techResult.sizeValid
    /\ Truthy(compliance) /\ compliance.passed

\* C2: when an apply-crop that was in flight at a start-over resumes or ends,
\* it leaves croppedImage, techResult, compliance and step as they are.
CounterC2 ==
    [][\A a \in applies :
          (a.sessionReset /\ a \notin applies')
            => UNCHANGED <<croppedImage, techResult, compliance, step>>]_vars

\* C3: start-over leaves step UPLOAD and an empty session: no image, crop
\* result, verdict or payment state, rotation and zoom initial, and no crop
\* position or croppedAreaPixels of the previous session.
CounterC3 ==
    [][reset
         => /\ step' = "UPLOAD"
            /\ image' = Null /\ croppedImage' = Null
            /\ techResult' = Null /\ compliance' = Null /\ paymentError' = Null
            /\ ~paymentVerified' /\ ~paypalReady' /\ ~paymentLoading'
            /\ rotation' = InitialRotation /\ zoom' = InitialZoom
            /\ crop' = InitialCrop /\ croppedAreaPixels' = Null]_vars

\* C4: re-crop moves the step to CROP and leaves techResult and compliance null.
CounterC4 ==
    [][reCrop => (step' = "CROP" /\ techResult' = Null /\ compliance' = Null)]_vars

AllowedSteps ==
    {<<"UPLOAD", "CROP">>, <<"CROP", "VALIDATE">>, <<"VALIDATE", "CROP">>,
     <<"VALIDATE", "PAYMENT">>, <<"PAYMENT", "DOWNLOAD">>}

\* C5: every change of step is UPLOAD->CROP, CROP->VALIDATE, VALIDATE->CROP,
\* VALIDATE->PAYMENT, PAYMENT->DOWNLOAD or a change to UPLOAD.
CounterC5 ==
    [][step' # step => (<<step, step'>> \in AllowedSteps \/ step' = "UPLOAD")]_vars

\* A capture of the current visit resumes with a failure: capture() rejected,
\* or verifyPayment answered verified = false.
CaptureFails(c) ==
    /\ InFlight(c)
    /\ ~c.cancelled
    /\ \/ \E o \in CaptureOutcomes : o.state = "rejected" /\ captureSettled(c, o)
       \/ \E o \in VerifyOutcomes :
             ~verifyPayment(o).value.verified /\ verifySettled(c, o)

VerificationFails(c) ==
    /\ InFlight(c)
    /\ ~c.cancelled
    /\ \E o \in VerifyOutcomes : ~verifyPayment(o).value.verified /\ verifySettled(c, o)

\* C7: after a capture whose verification answered verified = false, the step
\* is PAYMENT, paymentLoading is false and the rendered button is in the
\* container, so that the buyer can approve again in the same visit.
TheoremC7 ==
    [][\A c \in CaptureKinds :
          VerificationFails(c)
            => (step' = "PAYMENT" /\ ~paymentLoading' /\ button')]_vars

\* the payment panel after a failed verification: idle, with the button
WitnessC7 ==
    /\ step = "PAYMENT"
    /\ button
    /\ paymentError = Str("Payment verification failed.")
    /\ ~paymentLoading
    /\ CapturesInFlight = 0

\* C8: in step DOWNLOAD paymentVerified is true, and paymentVerified turns
\* true only where a capture resumes with a verifyPayment result verified = true.
TheoremC8 ==
    /\ [](step = "DOWNLOAD" => paymentVerified)
    /\ [][(~paymentVerified /\ paymentVerified')
            => \E c \in CaptureKinds, o \in VerifyOutcomes :
                  /\ ~c.cancelled
                  /\ verifyPayment(o).value.verified
                  /\ verifySettled(c, o)]_vars

WitnessC8 == step = "DOWNLOAD" /\ paymentVerified

\* C9: in step DOWNLOAD the image offered is a full-quality encoding of a
\* canvas without the watermark, never null or undefined, and it is the one
\* that was in the session when the photo was accepted.
TheoremC9 ==
    /\ [](step = "DOWNLOAD"
            => /\ Truthy(croppedImage)
               /\ croppedImage.quality = FullQuality
               /\ ~croppedImage.pixels.watermark)
    /\ [][(step \in {"PAYMENT", "DOWNLOAD"} /\ step' \in {"PAYMENT", "DOWNLOAD"})
            => croppedImage' = croppedImage]_vars

WitnessC9 ==
    /\ step = "DOWNLOAD"
    /\ Truthy(croppedImage)
    /\ croppedImage.quality = FullQuality
    /\ ~croppedImage.pixels.watermark

CheckNames == {"background", "headSize", "expression", "lighting", "sharpness"}

\* C10: checkPassportCompliance resolves for every outcome of the request,
\* and for every outcome but a parsed 2xx body the result it resolves to has
\* passed = false, score = 0 and the five checks "Error".
TheoremC10 ==
    [][\A a \in applies, o \in ComplianceOutcomes :
          complianceSettled(a, o)
            => /\ checkPassportCompliance(o).state = "fulfilled"
               /\ compliance' = checkPassportCompliance(o).value
               /\ o.kind # "ok_body"
                    => /\ compliance'.passed = FALSE
                       /\ compliance'.score = 0
                       /\ \A k \in CheckNames : compliance'.checks[k] = "Error"]_vars

WitnessC10 ==
    /\ step = "VALIDATE"
    /\ Truthy(compliance)
    /\ compliance.passed = FALSE
    /\ compliance.score = 0
    /\ \A k \in CheckNames : compliance.checks[k] = "Error"
    /\ compliance.feedback = "Failed to connect to AI service for validation. Please try again."

\* the failures of decoding and rendering, on which getCroppedImg rejects
RejectingOutcomes == {o \in RenderOutcomes : o.kind \in {"decode_error", "no_context"}}

Resumable == {a \in applies : a.phase \in {"render", "compliance"}}

\* C12: every apply-crop ends with loading false: whenever loading is true,
\* an await of handleApplyCrop is pending that can still resume and reach
\* the finally block.
CounterC12 == loading => Resumable # {}

InSizeRange(n) == MinSizeKb * BytesPerKb <= n /\ n <= MaxSizeKb * BytesPerKb

\* C13: for every value handleApplyCrop resumes with, the sizeValid it stores
\* is true exactly when size is a number n with 256000 <= n <= 5242880.
TheoremC13 ==
    [][\A a \in applies, v \in ResolvedSamples :
          resumeWithValue(a, v)
            => techResult'.sizeValid = (v.size # Undefined /\ InSizeRange(v.size.num))]_vars

\* the verdict stored for a size at the lower limit, 256000 bytes
WitnessC13 ==
    /\ Truthy(techResult)
    /\ techResult.fileSizeKb = [num |-> 256000, den |-> BytesPerKb]
    /\ techResult.sizeValid
    /\ \E a \in applies : a.phase = "compliance"

InDimensionRange(w, h) ==
    MinWidth <= w /\ w <= MaxWidth /\ MinHeight <= h /\ h <= MaxHeight

\* C14: for every value handleApplyCrop resumes with, dimensionsValid is true
\* exactly when 900 <= width <= 4500 and 1200 <= height <= 6000, formatValid
\* is true, and each verdict is the same for every other value that agrees
\* on the inputs of that verdict: size for sizeValid, width and height for
\* dimensionsValid.
TheoremC14 ==
    [][\A a \in applies, v \in ResolvedSamples :
          resumeWithValue(a, v)
            => /\ techResult'.dimensionsValid = InDimensionRange(v.width, v.height)
               /\ techResult'.formatValid
               /\ techResult'.format = "image/jpeg"
               /\ techResult'.width = v.width /\ techResult'.height = v.height
               /\ \A u \in ResolvedSamples :
                     LET other == TechnicalResult(u.size, u.width, u.height)
                     IN /\ u.size = v.size => other.sizeValid = techResult'.sizeValid
                        /\ (u.width = v.width /\ u.height = v.height)
                              => other.dimensionsValid = techResult'.dimensionsValid
                        /\ other.formatValid = techResult'.formatValid]_vars

\* a result at the upper limit of both dimensions with a size that is too small
WitnessC14 ==
    /\ Truthy(techResult)
    /\ techResult.width = MaxWidth /\ techResult.height = MaxHeight
    /\ techResult.dimensionsValid
    /\ ~techResult.sizeValid
    /\ techResult.formatValid

\* C15: for every crop rectangle with positive width and height and every
\* rotation from -180 to 180, a getCroppedImg that resolves reports width
\* 1500 and height 2000, and the TechnicalResult handleApplyCrop stores has
\* width 1500, height 2000 and dimensionsValid true.
TheoremC15 ==
    [][\A a \in applies, o \in RenderOutcomes :
          (/\ croppedImgSettled(a, o)
           /\ a.area.width > 0 /\ a.area.height > 0
           /\ a.rotation >= -180 /\ a.rotation <= 180
           /\ getCroppedImg(utils, a.image, a.area, a.rotation, o).state = "fulfilled")
            => /\ getCroppedImg(utils, a.image, a.area, a.rotation, o).value.width = 1500
               /\ getCroppedImg(utils, a.image, a.area, a.rotation, o).value.height = 2000
               /\ techResult'.width = 1500
               /\ techResult'.height = 2000
               /\ techResult'.dimensionsValid]_vars

\* the result stored for a crop rectangle wider than the largest valid
\* width, rotated by -180
WitnessC15 ==
    /\ Truthy(techResult)
    /\ techResult.width = 1500 /\ techResult.height = 2000
    /\ techResult.dimensionsValid
    /\ Truthy(croppedImage)
    /\ croppedImage.pixels.area.width = MaxWidth + 1
    /\ croppedImage.pixels.rotation = -180

\* C16: when getCroppedImg resolves for a crop whose full-quality encoding
\* has a byte length from 256000 to 5242880, the TechnicalResult that
\* handleApplyCrop stores has sizeValid and dimensionsValid true.
CounterC16 ==
    [][\A a \in applies, o \in RenderOutcomes :
          (/\ croppedImgSettled(a, o)
           /\ o.kind = "encoded"
           /\ InSizeRange(o.size))
            => (techResult'.sizeValid /\ techResult'.dimensionsValid)]_vars

\* C17: at most one SDK script is loading or loaded at any time; a call of
\* loadPayPalSDK appends a script only when none is loading and none has
\* loaded (the first call, or the first after a failed load); a call made
\* while the load is pending returns the pending promise itself.
TheoremC17 ==
    /\ [](scripts.loading + scripts.loaded <= 1)
    /\ [][(scripts'.loading > scripts.loading)
            => (accept /\ loadPromise = "null" /\ scripts.loading = 0 /\ scripts.loaded = 0)]_vars
    /\ [][(accept /\ loadPromise = "pending")
            => /\ UNCHANGED <<loadPromise, scripts>>
               /\ loadPayPalSDK(windowPaypal, loadPromise).returns = loadPromise
               /\ sdkWaiters' = sdkWaiters \cup {[cancelled |-> FALSE]}]_vars
    /\ [][(accept /\ (loadPromise = "resolved" \/ windowPaypal)) => UNCHANGED scripts]_vars

\* PAYMENT entered a second time while the one script is still loading: the
\* callers of both visits wait for the same promise
WitnessC17 ==
    /\ step = "PAYMENT"
    /\ scripts = [loading |-> 1, loaded |-> 0]
    /\ loadPromise = "pending"
    /\ sdkWaiters = {[cancelled |-> TRUE], [cancelled |-> FALSE]}

\* C18: paypal.Buttons(...).render is called only in step PAYMENT and at most
\* once between entering and leaving it, and paypalRendered turns false only
\* with the step not PAYMENT afterwards.
TheoremC18 ==
    /\ [](renders <= 1)
    /\ [](step # "PAYMENT" => renders = 0)
    /\ [][renders' > renders => step' = "PAYMENT"]_vars
    /\ [][(paypalRendered /\ ~paypalRendered') => step' # "PAYMENT"]_vars

\* the payment panel with its button, rendered once in this visit, after
\* the SDK reported an error of the button
WitnessC18 ==
    /\ step = "PAYMENT"
    /\ renders = 1
    /\ paypalRendered
    /\ button
    /\ paymentError = PayPalErrorMessage

\* C19: when the SDK script fails to load in step PAYMENT, paymentError is
\* set to a message, the step stays PAYMENT, paypalReady is and stays false
\* and no script is loading afterwards; a script starts loading only in the
\* step that enters PAYMENT.
TheoremC19 ==
    /\ [][(scriptOnerror /\ step = "PAYMENT")
            => /\ paymentError' # Null /\ paymentError' # Undefined
               /\ step' = "PAYMENT"
               /\ ~paypalReady /\ ~paypalReady'
               /\ scripts'.loading = 0
               /\ sdkWaiters' = {}]_vars
    /\ [][scripts'.loading > scripts.loading
            => (step # "PAYMENT" /\ step' = "PAYMENT")]_vars

\* the payment panel after the failed load
WitnessC19 ==
    /\ step = "PAYMENT"
    /\ paymentError = LoadFailedMessage
    /\ ~paypalReady
    /\ loadPromise = "null"
    /\ scripts.loading = 0
    /\ renders = 0
    /\ ~button

\* C20: at most one handleApplyCrop and at most one onApprove is suspended at
\* an await at any time, and loading, respectively paymentLoading, is true
\* while one is.
CounterC20 ==
    /\ Cardinality(applies) <= 1
    /\ applies # {} => loading
    /\ CapturesInFlight <= 1
    /\ CapturesInFlight > 0 => paymentLoading

\* C21: a handleApplyCrop call reaches await checkPassportCompliance only
\* in the step that stores its croppedImage and techResult, with the step
\* unchanged; the step becomes VALIDATE only in the step in which a call
\* resumes from that await and stores the compliance result; and in step
\* VALIDATE a compliance result is stored.
TheoremC21 ==
    /\ [][\A a \in applies, o \in RenderOutcomes :
            (croppedImgSettled(a, o) /\ \E b \in applies' : b.phase = "compliance")
              => LET v == getCroppedImg(utils, a.image, a.area, a.rotation, o).value
                 IN /\ croppedImage' = Prop(v, "dataUrl")
                    /\ techResult' = TechnicalResult(Prop(v, "size"), v.width, v.height)
                    /\ techResult' # Null
                    /\ UNCHANGED <<step, compliance>>]_vars
    /\ [][((\E b \in applies' : b.phase = "compliance")
             /\ ~(\E b \in applies : b.phase = "compliance"))
            => \E a \in applies, o \in RenderOutcomes : croppedImgSettled(a, o)]_vars
    /\ [][(step # "VALIDATE" /\ step' = "VALIDATE")
            => \E a \in applies, o \in ComplianceOutcomes :
                  /\ complianceSettled(a, o)
                  /\ compliance' = checkPassportCompliance(o).value]_vars
    /\ [](step = "VALIDATE" => Truthy(compliance))

\* the compliance request of a call is outstanding: its crop and verdict are
\* stored, no compliance result is, and the step is still CROP
WitnessC21 ==
    /\ step = "CROP"
    /\ \E a \in applies : a.phase = "compliance" /\ a.sent /\ ~a.sessionReset
    /\ Truthy(croppedImage)
    /\ Truthy(techResult)
    /\ compliance = Null
    /\ loading

\* C22: when an onApprove whose visit of PAYMENT has ended resumes from an
\* await, with whatever result, it leaves paymentVerified, step, paymentError
\* and paymentLoading as they are, also in a later visit of PAYMENT.
TheoremC22 ==
    [][\A c \in CaptureKinds :
          (/\ c.cancelled
           /\ \/ \E o \in CaptureOutcomes : captureSettled(c, o)
              \/ \E o \in VerifyOutcomes : verifySettled(c, o))
            => UNCHANGED <<paymentVerified, step, paymentError, paymentLoading>>]_vars

\* a new visit of PAYMENT, with a capture of its own awaited, while the
\* verification started in an earlier visit is still outstanding
WitnessC22 ==
    /\ step = "PAYMENT"
    /\ InFlight([phase |-> "verify", cancelled |-> TRUE])
    /\ InFlight([phase |-> "capture", cancelled |-> FALSE])
    /\ paymentLoading
    /\ ~paymentVerified

\* C25: in step VALIDATE croppedImage, techResult and compliance are all
\* set, and in steps CROP, VALIDATE, PAYMENT and DOWNLOAD image is set.
CounterC25 ==
    /\ step = "VALIDATE"
         => (Truthy(croppedImage) /\ Truthy(techResult) /\ Truthy(compliance))
    /\ step \in {"CROP", "VALIDATE", "PAYMENT", "DOWNLOAD"} => Truthy(image)

\* C26: in getCroppedImg the canvas carries the watermark only once the
\* full encoding (quality 0.95) is complete; the full encoding never shows
\* the watermark; the preview encoding (quality 0.7) is of the canvas with
\* the watermark; both show the same crop; and the call resolves to what
\* getCroppedImgPreview gives for an encoder that produced that size.
TheoremC26 ==
    \A a \in applies :
        /\ a.phase \in {"fullBlob", "fullDataUrl"} => ~a.canvas.watermark
        /\ a.phase = "fullBlob"
              => (a.encoding.quality = FullQuality /\ ~a.encoding.pixels.watermark)
        /\ a.phase \in {"fullDataUrl", "previewBlob", "previewDataUrl"}
              => (a.fullBlob.data.quality = FullQuality /\ ~a.fullBlob.data.pixels.watermark)
        /\ a.phase = "previewBlob"
              => (a.encoding.quality = PreviewQuality /\ a.encoding.pixels.watermark)
        /\ a.phase = "previewDataUrl"
              => (a.previewBlob.data.quality = PreviewQuality
                  /\ a.previewBlob.data.pixels.watermark)
        /\ a.phase = "resolved"
              => /\ a.value.fullDataUrl.quality = FullQuality
                 /\ ~a.value.fullDataUrl.pixels.watermark
                 /\ a.value.previewUrl.quality = PreviewQuality
                 /\ a.value.previewUrl.pixels.watermark
                 /\ a.value.previewUrl.pixels
                      = [a.value.fullDataUrl.pixels EXCEPT !.watermark = TRUE]
                 /\ Fulfilled(a.value)
                      = getCroppedImgPreview(a.call.image, a.call.area, a.call.rotation,
                                             [kind |-> "encoded",
                                              size |-> a.value.fullSizeBytes.num])

\* a call that has resolved, for a rotated crop
WitnessC26 ==
    \E a \in applies :
        /\ a.phase = "resolved"
        /\ a.call.rotation = 45
        /\ a.value.previewUrl.pixels.watermark
        /\ ~a.value.fullDataUrl.pixels.watermark


\* C27: a call of isRateLimited(ip) returns true exactly when the hits on
\* record for ip that are less than 60 seconds old, with the call itself,
\* are more than the limit of the function (5 for verify-payment,
\* store-photo and send-download-email, 10 for check-compliance and
\* download-photo); the call is put on record whatever it returns, after the
\* hits of the window; and the hits on record for every other ip stay as
\* they are.
TheoremC27 ==
    [][\A e \in DOMAIN ipHits : \A req \in RateLimitRequests(e) :
          handler(req, Uuid("a"))
            => LET ip == ClientIp(req)
                   before == HitsOf(ipHits[e], ip)
                   inWindow == {i \in DOMAIN before : now - before[i] < 60000}
                   count == Cardinality(inWindow) + 1
                   limit == IF e \in {"verify-payment", "store-photo", "send-download-email"}
                            THEN 5 ELSE 10
               IN /\ answered'.limited = Bool(count > limit)
                  /\ (answered'.status = 429) <=> (count > limit)
                  /\ DOMAIN ipHits'[e] = DOMAIN ipHits[e] \cup {ip}
                  /\ Len(ipHits'[e][ip]) = count
                  /\ ipHits'[e][ip][count] = now
                  /\ \A i \in 1..(count - 1) :
                        \E j \in inWindow : ipHits'[e][ip][i] = before[j]
                  /\ \A other \in DOMAIN ipHits[e] \ {ip} :
                        ipHits'[e][other] = ipHits[e][other]]_vars

\* check-compliance has just rejected a client for the second time running:
\* twelve hits of that client are on record, the first from a minute less a
\* millisecond ago, and another client has hits on record too
WitnessC27 ==
    /\ "check-compliance" \in DOMAIN ipHits
    /\ now = 59999
    /\ answered # NoAnswer
    /\ answered.status = 429
    /\ ClientIp(answered.req) = "203.0.113.7"
    /\ DOMAIN ipHits["check-compliance"] = {"203.0.113.7", "198.51.100.9"}
    /\ Len(ipHits["check-compliance"]["203.0.113.7"]) = 12
    /\ ipHits["check-compliance"]["203.0.113.7"][1] = 0
    /\ ipHits["check-compliance"]["203.0.113.7"][12] = 59999


\* the response sent last says verified: true
SaysVerified ==
    /\ answered # NoAnswer
    /\ "verified" \in DOMAIN answered.body
    /\ answered.body.verified

\* the request answered last was a POST that the origin check and the rate
\* limiter let pass, its orderID is a string of 10 to 50 letters, digits and
\* hyphens, and the provider's answer for that order was status COMPLETED
VerifiedRightly ==
    LET req == answered.req
        orderID == Prop(Coalesce(req.body, EmptyObject), "orderID")
    IN /\ answered.status = 200
       /\ req.method = "POST"
       /\ env.production
            => /\ req.origin # Undefined
               /\ req.origin.str \in {"https://nzpassport.photos", "https://www.nzpassport.photos",
                                      "http://localhost:3000",
                                      "https://nz-passport-photos-git-main.vercel.app"}
       /\ answered.limited = Bool(FALSE)
       /\ DOMAIN orderID = {"str"}
       /\ Len(orderID.str) \in 10..50
       /\ \A i \in 1..Len(orderID.str) : orderID.str[i] \in Upper \cup Lower \cup Digits \cup {"-"}
       /\ answered.body.orderID = orderID
       /\ Len(answered.calls) = 2
       /\ answered.calls[1].call = "paypal-token"
       /\ answered.calls[2] = [call |-> "paypal-order", result |-> [status |-> Str("COMPLETED")]]

\* the response sent last has an error status or says verified: false
RefusesVerified ==
    \/ answered.status >= 400
    \/ "verified" \in DOMAIN answered.body /\ ~answered.body.verified

\* C23 as it is stated: verify-payment says verified: true only to a POST
\* that passed the origin and rate-limit checks, with a well-formed orderID
\* and the provider's status COMPLETED; every other response has an error
\* status or says verified: false.
CounterC23 ==
    (answered # NoAnswer /\ answered.req.endpoint = "verify-payment")
      => /\ SaysVerified => VerifiedRightly
         /\ ~SaysVerified => RefusesVerified

\* C23, amended: verify-payment says verified: true only to a POST that
\* passed the origin and rate-limit checks, with a well-formed orderID and
\* the provider's status COMPLETED; every other response has an error status
\* or says verified: false, or it is the 204 without a body that answers an
\* OPTIONS request.
TheoremC23 ==
    (answered # NoAnswer /\ answered.req.endpoint = "verify-payment")
      => /\ SaysVerified => VerifiedRightly
         /\ ~SaysVerified
              => \/ RefusesVerified
                 \/ /\ answered.req.method = "OPTIONS"
                    /\ answered.status = 204
                    /\ answered.body = NoBody

\* in production, the fifth request of a client within the window is told
\* verified: true
WitnessC23 ==
    /\ SaysVerified
    /\ env.production
    /\ Len(ipHits["verify-payment"]["unknown"]) = 5
    /\ answered.req.origin = SiteOrigin


\* the origin of req is one the function named in req allows
OriginAllowed(req) ==
    /\ req.origin # Undefined
    /\ \/ req.origin.str = "https://nzpassport.photos"
       \/ /\ req.origin.str = "https://nz-passport-photos-git-main.vercel.app"
          /\ req.endpoint # "check-compliance"

\* req is answered before the rate limiter is reached
StoppedEarly(req) ==
    \/ req.method # "POST"
    \/ env.production /\ ~OriginAllowed(req)

\* the client of req has as many hits in the window as the limit allows
QuotaUsedUp(req) ==
    LET hits == HitsOf(ipHits[req.endpoint], ClientIp(req))
    IN Cardinality({i \in DOMAIN hits : now - hits[i] < 60000})
         >= (IF req.endpoint \in {"check-compliance", "download-photo"} THEN 10 ELSE 5)

\* C28: in each of the five handlers an OPTIONS request is answered 204,
\* another method than POST 405 and, in production, a POST of a disallowed
\* origin 403, each with the function's hits left as they are and nothing
\* called; a POST that gets past those checks is put on record, and when its
\* client's quota is used up it is answered 429 whatever its body is, with
\* nothing called and no invocation left waiting.  An invocation waits for a
\* call, or has made one, or is answered 400 or 413, only after the rate
\* limiter let it pass.
TheoremC28 ==
    /\ [][\A e \in DOMAIN ipHits : \A req \in HandlerRequests(e) :
            handler(req, Uuid("0"))
              => /\ StoppedEarly(req)
                    => /\ answered'.req = req
                       /\ answered'.status = (IF req.method = "OPTIONS" THEN 204
                                              ELSE IF req.method # "POST" THEN 405 ELSE 403)
                       /\ answered'.limited = Undefined
                       /\ answered'.calls = <<>>
                       /\ UNCHANGED <<ipHits, inflight, store>>
                 /\ ~StoppedEarly(req)
                    => /\ ipHits'[e][ClientIp(req)]
                            = Append(SelectSeq(HitsOf(ipHits[e], ClientIp(req)),
                                               LAMBDA h : now - h < 60000), now)
                       /\ QuotaUsedUp(req)
                            => /\ answered'.req = req
                               /\ answered'.status = 429
                               /\ answered'.calls = <<>>
                               /\ UNCHANGED <<inflight, store>>
                       /\ ~QuotaUsedUp(req)
                            => ~(answered' # answered /\ answered'.status = 429)]_vars
    /\ [][/\ \A inv \in inflight' : inv.limited = Bool(FALSE) /\ inv.req.method = "POST"
          /\ (answered' # NoAnswer
                /\ (answered'.calls # <<>> \/ answered'.status \in {400, 413}))
               => answered'.limited = Bool(FALSE)]_vars

\* in production, store-photo answers the sixth POST of a client within the
\* window with 429, although its body would pass validation
WitnessC28 ==
    /\ "store-photo" \in DOMAIN ipHits
    /\ env.production
    /\ answered # NoAnswer
    /\ answered.status = 429
    /\ answered.req.body = [image |-> ImageData(4000)]
    /\ answered.req.origin = SiteOrigin
    /\ Len(ipHits["store-photo"]["unknown"]) = 6
    /\ inflight = {}


\* the calls of verifyPayPalOrder in the trace calls: it returned true, it
\* returned false, or it threw
PaymentVerified(calls) ==
    /\ Len(calls) >= 2
    /\ calls[1].call = "paypal-token"
    /\ calls[1].result # Threw
    /\ Prop(calls[1].result, "access_token") # Undefined
    /\ calls[2] = [call |-> "paypal-order", result |-> [status |-> Str("COMPLETED")]]

PaymentRefused(calls) ==
    \/ Len(calls) = 1 /\ calls[1].result # Threw
          /\ Prop(calls[1].result, "access_token") = Undefined
    \/ Len(calls) = 2 /\ calls[2].call = "paypal-order" /\ calls[2].result # Threw
          /\ Prop(calls[2].result, "status") # Str("COMPLETED")

VerificationThrew(calls) ==
    /\ Len(calls) \in {1, 2}
    /\ calls[Len(calls)].call \in {"paypal-token", "paypal-order"}
    /\ calls[Len(calls)].result = Threw

Consulted(calls, service) == \E i \in 1..Len(calls) : calls[i].call = service

\* C24: download-photo sends a downloadUrl only with status 200, after the
\* provider reported the order of the request COMPLETED in the same
\* invocation and list found a blob photos/<photoId>.jpg in the store, whose
\* URL it is; when verifyPayPalOrder returns false (no credentials, no
\* access token, or another status than COMPLETED) the response is 403, when
\* it throws 500, and in both cases list was never called and no URL is
\* sent; list is called only once the payment is verified.
TheoremC24 ==
    /\ \A inv \in inflight :
          (inv.req.endpoint = "download-photo" /\ inv.await = "blob-list")
            => PaymentVerified(inv.calls)
    /\ (answered # NoAnswer /\ answered.req.endpoint = "download-photo")
         => /\ "downloadUrl" \in DOMAIN answered.body
                 => /\ answered.status = 200
                    /\ Len(answered.calls) = 3
                    /\ PaymentVerified(answered.calls)
                    /\ answered.calls[3].call = "blob-list"
                    /\ answered.body.downloadUrl \in answered.calls[3].result.blobs
                    /\ answered.body.downloadUrl.dir = "photos/"
                    /\ answered.body.downloadUrl.file
                         = answered.req.body.photoId.str \o <<".", "j", "p", "g">>
            /\ Consulted(answered.calls, "blob-list") => PaymentVerified(answered.calls)
            /\ PaymentRefused(answered.calls)
                 => /\ answered.status = 403
                    /\ "downloadUrl" \notin DOMAIN answered.body
            /\ VerificationThrew(answered.calls)
                 => /\ answered.status = 500
                    /\ "downloadUrl" \notin DOMAIN answered.body
            /\ (answered.calls = <<>> /\ answered.limited = Bool(FALSE)
                  /\ answered.status # 400)
                 => (answered.status = 403 /\ ~env.paypal)

\* the URL of the stored photo was sent to a client in production
WitnessC24 ==
    /\ answered # NoAnswer
    /\ answered.req.endpoint = "download-photo"
    /\ env.production
    /\ answered.status = 200
    /\ "downloadUrl" \in DOMAIN answered.body
    /\ answered.body.downloadUrl \in store


\* the three fields of a send-download-email body, as the claim words them
EmailOk(v) ==
    /\ DOMAIN v = {"str"}
    /\ \E at \in 1..Len(v.str) :
          /\ v.str[at] = "@"
          /\ at > 1
          /\ \A i \in 1..Len(v.str) : i # at => v.str[i] \notin {"@", " "}
          /\ \E dot \in (at + 1)..Len(v.str) :
                v.str[dot] = "." /\ dot > at + 1 /\ dot < Len(v.str)
PhotoIdOk(v) ==
    /\ DOMAIN v = {"str"}
    /\ Len(v.str) = 36
    /\ \A i \in 1..36 : v.str[i] \in {"a", "b", "c", "d", "e", "f", "-"} \cup Digits
OrderIdOk(v) ==
    /\ DOMAIN v = {"str"}
    /\ Len(v.str) \in 10..50
    /\ \A i \in 1..Len(v.str) : v.str[i] \in Upper \cup Lower \cup Digits \cup {"-"}

\* the email request of an invocation with request req and trace calls was
\* made after everything the claim lists
MailedRightly(req, calls) ==
    /\ req.method = "POST"
    /\ EmailOk(req.body.email)
    /\ PhotoIdOk(req.body.photoId)
    /\ OrderIdOk(req.body.orderID)
    /\ Len(calls) >= 4
    /\ PaymentVerified(calls)
    /\ calls[3].call = "blob-list"
    /\ calls[3].result # Threw
    /\ \E b \in calls[3].result.blobs :
          b.dir = "photos/" /\ b.file = req.body.photoId.str \o <<".", "j", "p", "g">>
    /\ calls[4] = [call |-> "blob-fetch", result |-> [bytes |-> TRUE]]

\* C29: send-download-email posts the email only after the email address,
\* then the photoId (36 characters of a-f, 0-9 and hyphen), then the orderID
\* passed validation, the provider reported the order COMPLETED and the
\* photo was listed in the store and fetched; the first field that fails
\* validation, in that order, decides the 400; a payment that is not
\* completed is answered 403 and a photo that is not found 404, both
\* without the email request and, for the 403, without a look at the store.
TheoremC29 ==
    /\ \A inv \in inflight :
          inv.req.endpoint = "send-download-email"
            => /\ inv.await = "resend" => MailedRightly(inv.req, inv.calls)
               /\ inv.await \in {"blob-list", "blob-fetch"} => PaymentVerified(inv.calls)
    /\ (answered # NoAnswer /\ answered.req.endpoint = "send-download-email")
         => LET field(name) == Prop(Coalesce(answered.req.body, EmptyObject), name)
            IN /\ Consulted(answered.calls, "resend")
                    => MailedRightly(answered.req, answered.calls)
               /\ "sent" \in DOMAIN answered.body
                    => Consulted(answered.calls, "resend")
               /\ Consulted(answered.calls, "blob-list") => PaymentVerified(answered.calls)
               /\ answered.status = 400
                    => /\ answered.calls = <<>>
                       /\ answered.body.error
                            = (IF ~EmailOk(field("email"))
                               THEN "Missing or invalid email address"
                               ELSE IF ~PhotoIdOk(field("photoId"))
                               THEN IF DOMAIN field("photoId") = {"str"} /\ field("photoId").str # <<>>
                                    THEN "Invalid photoId format"
                                    ELSE "Missing or invalid photoId"
                               ELSE IF DOMAIN field("orderID") = {"str"} /\ field("orderID").str # <<>>
                               THEN "Invalid orderID format"
                               ELSE "Missing or invalid orderID")
                       /\ ~OrderIdOk(field("orderID")) \/ ~PhotoIdOk(field("photoId"))
                            \/ ~EmailOk(field("email"))
               /\ PaymentRefused(answered.calls)
                    => /\ answered.status = 403
                       /\ ~Consulted(answered.calls, "blob-list")
                       /\ ~Consulted(answered.calls, "resend")
               /\ (answered.calls = <<>> /\ answered.limited = Bool(FALSE) /\ env.resendKey
                     /\ answered.status # 400)
                    => (answered.status = 403 /\ ~env.paypal)
               /\ (Len(answered.calls) = 3 /\ answered.calls[3].result # Threw
                     /\ answered.calls[3].result.blobs = {})
                    => /\ answered.status = 404
                       /\ ~Consulted(answered.calls, "resend")
               /\ answered.status \in {403, 404} => ~Consulted(answered.calls, "resend")

\* the email with the stored photo was sent
WitnessC29 ==
    /\ answered # NoAnswer
    /\ answered.req.endpoint = "send-download-email"
    /\ answered.status = 200
    /\ answered.body = [sent |-> TRUE]
    /\ answered.calls[5] = [call |-> "resend", result |-> [ok |-> TRUE]]
    /\ answered.calls[3].result.blobs \subseteq store


\* the blobs a run with trace calls has passed to del, call by call
RECURSIVE DeletedCount(_)
DeletedCount(calls) ==
    IF calls = <<>> THEN 0
    ELSE DeletedCount(SubSeq(calls, 1, Len(calls) - 1))
         + (IF calls[Len(calls)].call = "blob-del" /\ calls[Len(calls)].result # Threw
            THEN Cardinality(calls[Len(calls)].result.deleted)
            ELSE 0)

\* req carries the cron secret of the deployment as a bearer token
Authorized(req) ==
    /\ env.cronSecret # Undefined
    /\ req.authorization = Str("Bearer " \o env.cronSecret.str)

\* a run entered at time at deletes, or is about to delete, only photos
\* uploaded more than 24 hours before at
DeletesOldPhotosOnly(at, blobs) ==
    \A b \in blobs : b.dir = "photos/" /\ at - b.uploadedAt > 24 * 60 * 60 * 1000

\* the runs of cleanup-photos: every one was requested with the cron secret
CleanupAuthorized ==
    /\ \A inv \in inflight : inv.req.endpoint = "cleanup-photos" => Authorized(inv.req)
    /\ (answered # NoAnswer /\ answered.req.endpoint = "cleanup-photos")
         => /\ Authorized(answered.req) <=> answered.status # 401
            /\ answered.status = 401 => answered.calls = <<>>

\* what a run deletes, when it ends and what it reports
CleanupDeletes ==
    /\ \A inv \in inflight :
          inv.req.endpoint = "cleanup-photos"
            => /\ inv.await = "blob-del" => DeletesOldPhotosOnly(inv.at, inv.locals.old)
               /\ \A i \in 1..Len(inv.calls) :
                     /\ inv.calls[i].call = "blob-del"
                          => DeletesOldPhotosOnly(inv.at, inv.calls[i].result.deleted)
                     /\ (inv.calls[i].call = "blob-list-page" /\ ~inv.calls[i].result.hasMore)
                          => (i = Len(inv.calls) /\ inv.await = "blob-del")
    /\ (answered # NoAnswer /\ answered.req.endpoint = "cleanup-photos")
         => /\ \A i \in 1..Len(answered.calls) :
                  (answered.calls[i].call = "blob-del" /\ answered.calls[i].result # Threw)
                    => DeletesOldPhotosOnly(answered.at, answered.calls[i].result.deleted)
            /\ answered.status = 200
                 => /\ answered.body = [deleted |-> DeletedCount(answered.calls)]
                    /\ \E i \in 1..Len(answered.calls) :
                          /\ answered.calls[i].call = "blob-list-page"
                          /\ ~answered.calls[i].result.hasMore
                          /\ \A j \in (i + 1)..Len(answered.calls) :
                                answered.calls[j].call = "blob-del"

\* C30: a run of cleanup-photos ends once a listing reports no more pages,
\* deletes only blobs under photos/ uploaded more than 24 hours before it
\* began, and reports as deleted the number of blobs it deleted; a request
\* whose authorization header is not the cron secret as a bearer token is
\* answered 401 and starts no run.
CounterC30 == CleanupAuthorized /\ CleanupDeletes

====
